---- MODULE Spec2Model ----
(***************************************************************************)
(* Model of the pipeline orchestration layer of vscode-claude-workflow:    *)
(*   - ClaudeCodeRunner  (src/src/cli/ClaudeCodeRunner.ts): spawns the CLI *)
(*     as a child process, collects stdout/stderr, times out, stops.       *)
(*   - WorkflowManager   (src/src/cli/WorkflowManager.ts): the             *)
(*     planning -> awaiting_approval -> implementing -> reviewing state    *)
(*     machine and the parsing of each stage's output.                     *)
(*                                                                         *)
(* Text is a sequence of one-character strings.  Node.js runs the handler  *)
(* of an event of the loop (child process output, 'close', a timer)        *)
(* together with the promise jobs it queues before the next event is       *)
(* taken, so the action of such an event is its handler plus the part of   *)
(* executeWorkflow that it resumes.  A call the client makes runs up to    *)
(* its first await and returns to the client, which may make further calls *)
(* before it returns to the event loop.  Then the callbacks given to       *)
(* process.nextTick run (the 'error' event of a child that could not be    *)
(* spawned is emitted from one), then the promise jobs, oldest first, then *)
(* the nextTick callbacks queued meanwhile, and so on until both queues    *)
(* are empty; each nextTick callback and each resumption of                *)
(* executeWorkflow among the jobs is one step.                             *)
(*                                                                         *)
(* The Japanese message literals of the source are written as ASCII        *)
(* glosses; each gloss names its source line.                              *)
(***************************************************************************)
EXTENDS Integers, Sequences, FiniteSets, TLC

(***************************************************************************)
(* Bounds of the model.                                                    *)
(***************************************************************************)
\* calls of executeWorkflow on the one WorkflowManager instance
MaxRuns == 2
\* stdout 'data' events of one child process
MaxChunks == 1
\* stderr 'data' events of the child processes, all together
MaxErrChunks == 1
\* child processes spawned in one execution
MaxProcs == 3
\* calls of WorkflowManager.stop() and WorkflowManager.dispose(), together
MaxStops == 1

(***************************************************************************)
(* Text helpers (JavaScript string operations).                            *)
(***************************************************************************)
\* String.prototype.substring(from, to) with 0-based, end-exclusive indexes
Substring(s, from, to) ==
  LET a == IF from > Len(s) THEN Len(s) ELSE from
      b == IF to > Len(s) THEN Len(s) ELSE to
  IN  IF b <= a THEN <<>> ELSE SubSeq(s, a + 1, b)

\* whether pat occurs in s at 1-based position i
StartsWithAt(s, i, pat) ==
  /\ i >= 1
  /\ i + Len(pat) - 1 <= Len(s)
  /\ \A k \in 1..Len(pat) : s[i + k - 1] = pat[k]

\* String.prototype.indexOf as a 1-based position from position i on, 0 when absent
IndexOfFrom(s, pat, i) ==
  LET hits == {k \in i..(Len(s) - Len(pat) + 1) : StartsWithAt(s, k, pat)}
  IN  IF hits = {} THEN 0 ELSE CHOOSE k \in hits : \A m \in hits : k <= m

\* the regular expression class \s, on the characters the model uses: the
\* form feed, written "<FF>", belongs to it
IsWhitespace(c) == c \in {" ", "\n", "\t", "\r", "<FF>"}

\* \s* matched greedily from position i: the first position >= i that holds
\* no whitespace
RECURSIVE SkipWhitespace(_, _)
SkipWhitespace(s, i) ==
  IF i <= Len(s) /\ IsWhitespace(s[i]) THEN SkipWhitespace(s, i + 1) ELSE i

\* the whitespace of the JSON grammar: space, line feed, tab and carriage
\* return only
IsJSONWhitespace(c) == c \in {" ", "\n", "\t", "\r"}

\* the first position >= i that holds no JSON whitespace
RECURSIVE SkipJSONWhitespace(_, _)
SkipJSONWhitespace(s, i) ==
  IF i <= Len(s) /\ IsJSONWhitespace(s[i]) THEN SkipJSONWhitespace(s, i + 1) ELSE i

RECURSIVE Flatten(_)
Flatten(ss) == IF ss = <<>> THEN <<>> ELSE Head(ss) \o Flatten(Tail(ss))

(***************************************************************************)
(* JSON values and JSON.parse.                                             *)
(* A value is a record [t, v]: t is its type and v its content.  An object *)
(* is the sequence of its <<key, value>> members in the order of its own   *)
(* keys: the array indexes ascending, then the other keys as inserted.     *)
(* The grammar covers objects, arrays, strings with the one-character      *)
(* escapes, unsigned integers and the literals true, false and null; the   *)
(* inputs of the model use no other JSON syntax.                           *)
(***************************************************************************)
Undefined == [t |-> "undefined", v |-> 0]
JNull == [t |-> "null", v |-> 0]
JBool(b) == [t |-> "bool", v |-> b]
JNum(n) == [t |-> "num", v |-> n]
JStr(cs) == [t |-> "str", v |-> cs]
JArr(vs) == [t |-> "arr", v |-> vs]
JObj(ms) == [t |-> "obj", v |-> ms]

\* the value of property `key` of a parsed value (undefined when absent)
GetProp(val, key) ==
  IF val.t # "obj" THEN Undefined
  ELSE LET hits == {i \in 1..Len(val.v) : val.v[i][1] = key}
       IN  IF hits = {} THEN Undefined
           ELSE val.v[CHOOSE i \in hits : TRUE][2]

Digits == {"0", "1", "2", "3", "4", "5", "6", "7", "8", "9"}
DigitVal(c) ==
  CASE c = "0" -> 0 [] c = "1" -> 1 [] c = "2" -> 2 [] c = "3" -> 3
    [] c = "4" -> 4 [] c = "5" -> 5 [] c = "6" -> 6 [] c = "7" -> 7
    [] c = "8" -> 8 [] OTHER -> 9

\* whether the decimal numeral a, without leading 0, is less than b
DigitsBefore(a, b) ==
  \/ Len(a) < Len(b)
  \/ /\ Len(a) = Len(b)
     /\ \E i \in 1..Len(a) :
          /\ DigitVal(a[i]) < DigitVal(b[i])
          /\ \A j \in 1..(i - 1) : a[j] = b[j]

\* whether a property key is an array index: the canonical decimal form of
\* an integer from 0 to 4294967294 (no sign, no leading 0)
IsArrayIndex(key) ==
  /\ Len(key) \in 1..10
  /\ \A i \in 1..Len(key) : key[i] \in Digits
  /\ Len(key) > 1 => key[1] # "0"
  /\ Len(key) = 10 =>
       ~DigitsBefore(<<"4", "2", "9", "4", "9", "6", "7", "2", "9", "4">>, key)

\* the place a new own property takes among the keys an object has: the
\* array indexes come first, in ascending numeric order, the other keys
\* follow in the order of their creation
OwnKeyPlace(keys, key) ==
  IF IsArrayIndex(key)
  THEN 1 + Cardinality({i \in 1..Len(keys) :
                          IsArrayIndex(keys[i]) /\ DigitsBefore(keys[i], key)})
  ELSE Len(keys) + 1

\* seq with x put at place k
InsertAt(seq, k, x) == SubSeq(seq, 1, k - 1) \o <<x>> \o SubSeq(seq, k, Len(seq))

\* obj[key] = value: a repeated key keeps its place and takes the new value,
\* a new key takes its place among the own keys
SetMember(ms, key, value) ==
  IF \E i \in 1..Len(ms) : ms[i][1] = key
  THEN [i \in 1..Len(ms) |-> IF ms[i][1] = key THEN <<key, value>> ELSE ms[i]]
  ELSE InsertAt(ms, OwnKeyPlace([i \in 1..Len(ms) |-> ms[i][1]], key), <<key, value>>)

JFail == [ok |-> FALSE, v |-> Undefined, next |-> 0]
JOk(val, n) == [ok |-> TRUE, v |-> val, next |-> n]

RECURSIVE ParseDigits(_, _, _)
ParseDigits(s, i, acc) ==
  IF i <= Len(s) /\ s[i] \in Digits
  THEN ParseDigits(s, i + 1, acc * 10 + DigitVal(s[i]))
  ELSE JOk(JNum(acc), i)

\* a JSON number: a leading 0 stands alone
ParseNumber(s, i) ==
  IF s[i] = "0" THEN JOk(JNum(0), i + 1) ELSE ParseDigits(s, i, 0)

EscapeChars == {"\"", "\\", "/", "b", "f", "n", "r", "t"}
Unescape(c) ==
  CASE c = "n" -> "\n" [] c = "t" -> "\t" [] c = "r" -> "\r"
    [] c = "b" -> "<BS>" [] c = "f" -> "<FF>" [] OTHER -> c

\* the characters of a string literal from position i (after the opening quote)
RECURSIVE ParseChars(_, _, _)
ParseChars(s, i, acc) ==
  IF i > Len(s) THEN JFail
  ELSE IF s[i] = "\"" THEN JOk(JStr(acc), i + 1)
  ELSE IF s[i] = "\\"
       THEN IF i + 1 <= Len(s) /\ s[i + 1] \in EscapeChars
            THEN ParseChars(s, i + 2, Append(acc, Unescape(s[i + 1])))
            ELSE JFail
  ELSE IF s[i] \in {"\n", "\t", "\r", "<BS>", "<FF>"} THEN JFail
  ELSE ParseChars(s, i + 1, Append(acc, s[i]))

RECURSIVE ParseValue(_, _)
RECURSIVE ParseElements(_, _, _)
RECURSIVE ParseMembers(_, _, _)

\* the elements of an array from position i (the first element's first character)
ParseElements(s, i, acc) ==
  LET r == ParseValue(s, i)
      k == SkipJSONWhitespace(s, r.next)
  IN  IF ~r.ok \/ k > Len(s) THEN JFail
      ELSE IF s[k] = "," THEN ParseElements(s, SkipJSONWhitespace(s, k + 1), Append(acc, r.v))
      ELSE IF s[k] = "]" THEN JOk(JArr(Append(acc, r.v)), k + 1)
      ELSE JFail

\* the members of an object from position i (the first key's opening quote)
ParseMembers(s, i, acc) ==
  IF i > Len(s) \/ s[i] # "\"" THEN JFail
  ELSE LET key == ParseChars(s, i + 1, <<>>)
           c == SkipJSONWhitespace(s, key.next)
       IN  IF ~key.ok \/ c > Len(s) \/ s[c] # ":" THEN JFail
           ELSE LET r == ParseValue(s, SkipJSONWhitespace(s, c + 1))
                    k == SkipJSONWhitespace(s, r.next)
                IN  IF ~r.ok \/ k > Len(s) THEN JFail
                    ELSE IF s[k] = ","
                         THEN ParseMembers(s, SkipJSONWhitespace(s, k + 1),
                                           SetMember(acc, key.v.v, r.v))
                    ELSE IF s[k] = "}"
                         THEN JOk(JObj(SetMember(acc, key.v.v, r.v)), k + 1)
                    ELSE JFail

\* one JSON value whose first character is at position i
ParseValue(s, i) ==
  IF i > Len(s) THEN JFail
  ELSE IF s[i] = "{"
       THEN LET j == SkipJSONWhitespace(s, i + 1)
            IN  IF j <= Len(s) /\ s[j] = "}" THEN JOk(JObj(<<>>), j + 1)
                ELSE ParseMembers(s, j, <<>>)
  ELSE IF s[i] = "["
       THEN LET j == SkipJSONWhitespace(s, i + 1)
            IN  IF j <= Len(s) /\ s[j] = "]" THEN JOk(JArr(<<>>), j + 1)
                ELSE ParseElements(s, j, <<>>)
  ELSE IF s[i] = "\"" THEN ParseChars(s, i + 1, <<>>)
  ELSE IF s[i] \in Digits THEN ParseNumber(s, i)
  ELSE IF StartsWithAt(s, i, <<"t", "r", "u", "e">>) THEN JOk(JBool(TRUE), i + 4)
  ELSE IF StartsWithAt(s, i, <<"f", "a", "l", "s", "e">>) THEN JOk(JBool(FALSE), i + 5)
  ELSE IF StartsWithAt(s, i, <<"n", "u", "l", "l">>) THEN JOk(JNull, i + 4)
  ELSE JFail

\* JSON.parse(text): [ok |-> FALSE] stands for the SyntaxError it throws
JSONParse(s) ==
  LET r == ParseValue(s, SkipJSONWhitespace(s, 1))
  IN  IF r.ok /\ SkipJSONWhitespace(s, r.next) = Len(s) + 1
      THEN [ok |-> TRUE, v |-> r.v]
      ELSE [ok |-> FALSE, v |-> Undefined]

(***************************************************************************)
(* Output parsing of WorkflowManager.                                      *)
(***************************************************************************)
\* the backquote character (U+0060), which a TLA+ string cannot hold
Backquote == "<backquote>"
\* the literal that opens a fenced block (three backquotes and json), and the
\* three backquotes that close it
FenceOpen == <<Backquote, Backquote, Backquote, "j", "s", "o", "n">>
FenceClose == <<Backquote, Backquote, Backquote>>

\* the start of the run of whitespace that ends just before position f, not below q
RECURSIVE TrimBack(_, _, _)
TrimBack(s, f, q) ==
  IF f > q /\ IsWhitespace(s[f - 1]) THEN TrimBack(s, f - 1, q) ELSE f

\* the regular expression match of lines 304, 369 and 380: the leftmost fence
\* opener, the whitespace after it skipped (greedy), then the shortest text up
\* to optional whitespace and the next fence closer; inner is capture group 1
FenceMatch(output) ==
  LET p == IndexOfFrom(output, FenceOpen, 1)
      q == SkipWhitespace(output, p + Len(FenceOpen))
      f == IndexOfFrom(output, FenceClose, q)
  IN  IF p = 0 \/ f = 0 THEN [found |-> FALSE, inner |-> <<>>]
      ELSE [found |-> TRUE,
            inner |-> Substring(output, q - 1, TrimBack(output, f, q) - 1)]

\* the for loop of parsePMOutput: from 0-based index i with brace count n, the
\* 0-based end index (exclusive) of the balanced object, or -1
RECURSIVE BraceScan(_, _, _)
BraceScan(output, i, n) ==
  IF i >= Len(output) THEN -1
  ELSE LET c == output[i + 1]
           opened == IF c = "{" THEN n + 1 ELSE n
           closed == IF c = "}" THEN opened - 1 ELSE opened
       IN  IF closed = 0 /\ c = "}" THEN i + 1 ELSE BraceScan(output, i + 1, closed)

\* the substring parsePMOutput cuts from the first brace to the index where the
\* for loop found the brace count back at 0, or the empty text when there is
\* no brace or the count never returns to 0 (a cut substring is never empty)
BraceCandidate(output) ==
  LET start == IndexOfFrom(output, <<"{">>, 1) - 1
      end == IF start = -1 THEN -1 ELSE BraceScan(output, start, 0)
  IN  IF start # -1 /\ end # -1 THEN Substring(output, start, end) ELSE <<>>

\* the number of leading characters of the raw output echoed into the placeholder
PlaceholderPrefixLen == 200

Chars_requirements == <<"r", "e", "q", "u", "i", "r", "e", "m", "e", "n", "t", "s">>
Chars_implementationPlan ==
  <<"i", "m", "p", "l", "e", "m", "e", "n", "t", "a", "t", "i", "o", "n", "P", "l", "a", "n">>
Chars_tasks == <<"t", "a", "s", "k", "s">>
Chars_id == <<"i", "d">>
Chars_description == <<"d", "e", "s", "c", "r", "i", "p", "t", "i", "o", "n">>
Chars_priority == <<"p", "r", "i", "o", "r", "i", "t", "y">>
Chars_estimatedEffort ==
  <<"e", "s", "t", "i", "m", "a", "t", "e", "d", "E", "f", "f", "o", "r", "t">>
Chars_dependencies == <<"d", "e", "p", "e", "n", "d", "e", "n", "c", "i", "e", "s">>
Chars_files == <<"f", "i", "l", "e", "s">>
Chars_estimatedComplexity ==
  <<"e", "s", "t", "i", "m", "a", "t", "e", "d", "C", "o", "m", "p", "l", "e", "x", "i", "t", "y">>
Chars_risks == <<"r", "i", "s", "k", "s">>
Chars_successCriteria ==
  <<"s", "u", "c", "c", "e", "s", "s", "C", "r", "i", "t", "e", "r", "i", "a">>
Chars_notes == <<"n", "o", "t", "e", "s">>
Chars_generatedFiles ==
  <<"g", "e", "n", "e", "r", "a", "t", "e", "d", "F", "i", "l", "e", "s">>

\* the dummy PMOutput with the whole raw output as its task description
PMPlaceholder_WholeOutput(output) ==
  JObj(<< <<Chars_requirements, JArr(<<JStr(<<"<task analysis (not returned as JSON)>">>)>>)>>,
          <<Chars_implementationPlan,
            JObj(<< <<Chars_tasks,
                      JArr(<<JObj(<< <<Chars_id, JStr(<<"t", "a", "s", "k", "-", "1">>)>>,
                                     <<Chars_description,
                                       JStr(output)>>,
                                     <<Chars_priority, JStr(<<"h", "i", "g", "h">>)>>,
                                     <<Chars_estimatedEffort, JStr(<<"<small>">>)>>,
                                     <<Chars_dependencies, JArr(<<>>)>>,
                                     <<Chars_files, JArr(<<>>)>> >>)>>)>>,
                    <<Chars_estimatedComplexity, JNum(5)>>,
                    <<Chars_risks, JArr(<<>>)>> >>)>>,
          <<Chars_successCriteria, JArr(<<JStr(<<"<the implementation completes>">>)>>)>>,
          <<Chars_notes,
            JArr(<<JStr(<<"<the agent did not answer in JSON>">>),
                   JStr(<<"<check the raw text output>">>)>>)>> >>)

\* the dummy PMOutput of the catch block of parsePMOutput; each Japanese
\* literal is one gloss
PMPlaceholder(output) ==
  JObj(<< <<Chars_requirements, JArr(<<JStr(<<"<task analysis (not returned as JSON)>">>)>>)>>,
          <<Chars_implementationPlan,
            JObj(<< <<Chars_tasks,
                      JArr(<<JObj(<< <<Chars_id, JStr(<<"t", "a", "s", "k", "-", "1">>)>>,
                                     <<Chars_description,
                                       JStr(Substring(output, 0, PlaceholderPrefixLen))>>,
                                     <<Chars_priority, JStr(<<"h", "i", "g", "h">>)>>,
                                     <<Chars_estimatedEffort, JStr(<<"<small>">>)>>,
                                     <<Chars_dependencies, JArr(<<>>)>>,
                                     <<Chars_files, JArr(<<>>)>> >>)>>)>>,
                    <<Chars_estimatedComplexity, JNum(5)>>,
                    <<Chars_risks, JArr(<<>>)>> >>)>>,
          <<Chars_successCriteria, JArr(<<JStr(<<"<the implementation completes>">>)>>)>>,
          <<Chars_notes,
            JArr(<<JStr(<<"<the agent did not answer in JSON>">>),
                   JStr(<<"<check the raw text output>">>)>>)>> >>)

\* the three strategies of the try block of parsePMOutput: the first one whose
\* condition holds decides, and its JSON.parse may throw
PMTryParse(output) ==
  LET m == FenceMatch(output)
      candidate == BraceCandidate(output)
  IN  IF m.found THEN JSONParse(m.inner)
      ELSE IF candidate # <<>> THEN JSONParse(candidate)
      ELSE JSONParse(output)

\* parsePMOutput(output): never throws
parsePMOutput(output) ==
  LET r == PMTryParse(output)
  IN  IF r.ok THEN r.v ELSE PMPlaceholder(output)

\* parseEngineerOutput(output): [ok |-> FALSE] stands for the SyntaxError thrown
parseEngineerOutput(output) ==
  LET m == FenceMatch(output)
  IN  IF m.found THEN JSONParse(m.inner) ELSE JSONParse(output)

\* parseReviewerOutput(output): [ok |-> FALSE] stands for the SyntaxError thrown
parseReviewerOutput(output) ==
  LET m == FenceMatch(output)
  IN  IF m.found THEN JSONParse(m.inner) ELSE JSONParse(output)

\* `${value}` in a template literal, for a parsed JSON value: whether the
\* conversion to a string returns.  An object is converted by its toString
\* method; an own member named toString hides Object.prototype.toString and
\* is never a function, and then neither an own valueOf nor
\* Object.prototype.valueOf yields a primitive: a TypeError is thrown.  An
\* array is joined, which converts each element other than null.
RECURSIVE Stringifiable(_)
Stringifiable(val) ==
  CASE val.t = "obj" -> \A i \in 1..Len(val.v) : val.v[i][1] # <<"t", "o", "S", "t", "r", "i", "n", "g">>
    [] val.t = "arr" -> \A i \in 1..Len(val.v) : Stringifiable(val.v[i])
    [] OTHER -> TRUE

\* buildReviewerPrompt throws a TypeError unless engineerOutput.generatedFiles
\* has forEach (is an array), no element is null (file.path is read) and the
\* path, action and summary of every element can be converted to a string
BuildReviewerPromptThrows(engineerOutput) ==
  LET gf == GetProp(engineerOutput, Chars_generatedFiles)
  IN  \/ gf.t # "arr"
      \/ \E i \in 1..Len(gf.v) :
           \/ gf.v[i].t = "null"
           \/ ~Stringifiable(GetProp(gf.v[i], <<"p", "a", "t", "h">>))
           \/ ~Stringifiable(GetProp(gf.v[i], <<"a", "c", "t", "i", "o", "n">>))
           \/ ~Stringifiable(GetProp(gf.v[i], <<"s", "u", "m", "m", "a", "r", "y">>))

\* A prompt is its fixed template and the values written into it.
\* buildPMPrompt(task): the task is the same in every call of the model
buildPMPrompt == [template |-> "pm", filled |-> <<>>]

\* buildEngineerPrompt(pmOutput): the template around JSON.stringify(pmOutput),
\* a text that the parsed value determines and that determines it
buildEngineerPrompt(pmOutput) == [template |-> "engineer", filled |-> <<pmOutput>>]

\* buildReviewerPrompt(engineerOutput), when it does not throw: one line of
\* path, action and summary for each generated file
buildReviewerPrompt(engineerOutput) ==
  LET gf == GetProp(engineerOutput, Chars_generatedFiles)
  IN  [template |-> "reviewer",
       filled |-> [i \in 1..Len(gf.v) |->
                     <<GetProp(gf.v[i], <<"p", "a", "t", "h">>),
                       GetProp(gf.v[i], <<"a", "c", "t", "i", "o", "n">>),
                       GetProp(gf.v[i], <<"s", "u", "m", "m", "a", "r", "y">>)>>]]

(***************************************************************************)
(* Messages.  A fixed literal of the source is one piece of text; the      *)
(* Japanese literals are glossed.                                          *)
(***************************************************************************)
\* this.timeout = options.timeout || 300000
DefaultTimeout == 300000

DigitChar(d) ==
  CASE d = 0 -> "0" [] d = 1 -> "1" [] d = 2 -> "2" [] d = 3 -> "3" [] d = 4 -> "4"
    [] d = 5 -> "5" [] d = 6 -> "6" [] d = 7 -> "7" [] d = 8 -> "8" [] OTHER -> "9"

\* the decimal digits of a number >= 0
RECURSIVE NatToChars(_)
NatToChars(n) ==
  IF n < 10 THEN <<DigitChar(n)>> ELSE Append(NatToChars(n \div 10), DigitChar(n % 10))

\* ${value} in a template literal, for a number or null
TemplateOf(val) ==
  IF val.t = "null" THEN <<"n", "u", "l", "l">>
  ELSE IF val.v < 0 THEN <<"-">> \o NatToChars(0 - val.v)
  ELSE NatToChars(val.v)

\* String(error) for an AgentResult's error: a string, or undefined
StringOf(error) ==
  IF error.t = "str" THEN error.v ELSE <<"u", "n", "d", "e", "f", "i", "n", "e", "d">>

\* ClaudeCodeRunner.ts:146
MissingAgentError(agentName) ==
  <<"<agent definition file not found>", ": ", "<projectRoot>/.claude/agents/", agentName, ".md">>
\* ClaudeCodeRunner.ts:200
ExitError(code, stderr) ==
  <<"<agent execution failed>", " (code: ">> \o TemplateOf(code) \o <<")", "\n">> \o stderr
\* ClaudeCodeRunner.ts:213
SpawnError == <<"<failed to launch Claude Code>", ": ", "<err.message>">>
\* ClaudeCodeRunner.ts:227
TimeoutError(timeout) ==
  <<"<agent execution timed out>", " (">> \o NatToChars(timeout) \o <<"ms)">>
\* the message of the Error that emit('error', ...) throws when no 'error'
\* listener is registered
UnhandledErrorMessage == <<"<Unhandled error>">>
\* the message of the SyntaxError of JSON.parse and of the TypeError of
\* buildReviewerPrompt
SyntaxErrorMessage == <<"<SyntaxError>">>
TypeErrorMessage == <<"<TypeError>">>
\* WorkflowManager.ts:128, 148, 158, 173
MsgPMFailed == "<PM agent execution failed>"
MsgEngineerFailed == "<engineer agent execution failed>"
MsgReviewerFailed == "<reviewer agent execution failed>"
MsgWorkflowError == "<an error occurred while executing the workflow>"

(***************************************************************************)
(* State.                                                                  *)
(***************************************************************************)
VARIABLES
  currentStatus,    \* WorkflowManager.currentStatus
  currentResult,    \* WorkflowManager.currentResult (one object, mutated in place)
  runnerListeners,  \* whether the listeners the manager put on its runner remain
  currentProcess,   \* ClaudeCodeRunner.currentProcess: 0 is null, else a process
  procs,            \* the child processes spawned so far, with their closures
  runs,             \* the calls of executeWorkflow and where each one waits
  stopCount,        \* the calls of WorkflowManager.stop() made so far
  microtasks,       \* the promise jobs queued and not yet run, oldest first
  checkpoint,       \* what runs before anything else: "ticks" while the nextTick
                    \* callbacks run, "jobs" while the promise jobs run, "no"
                    \* while the client's code runs or the event loop is free;
                    \* "exited" once the host process was terminated
  statusTrail,      \* the statuses updateStatus assigned in the step just taken
  settledTrail,     \* the invocations whose result the awaiting call received in
                    \* the step just taken
  eventTrail,       \* the events emitted and callbacks called in the step just taken
  rawOutput,        \* the output argument of a parse call made on its own
  extracted,        \* what that parse call returned or threw
  managers,         \* the WorkflowManager objects a WorkflowPanel has created
  _workflowManager, \* WorkflowPanel._workflowManager: 0 is undefined, else a manager
  _approvalResolver,\* WorkflowPanel._approvalResolver: 0 is undefined, else the
                    \* manager whose approval promise the stored resolve settles
  _currentStatus,   \* WorkflowPanel._currentStatus
  files,            \* the argument of a call of analyzeCodeStructure
  summary           \* what that call returned or threw

vars ==
  <<currentStatus, currentResult, runnerListeners, currentProcess, procs, runs,
    stopCount, microtasks, checkpoint, statusTrail, settledTrail, eventTrail,
    rawOutput, extracted, managers, _workflowManager, _approvalResolver, _currentStatus, files, summary>>

\* the fields of a WorkflowPanel
panelVars == <<managers, _workflowManager, _approvalResolver, _currentStatus>>

\* a call of analyzeCodeStructure made on its own
analysisVars == <<files, summary>>

Statuses ==
  {"idle", "planning", "awaiting_approval", "implementing", "reviewing",
   "completed", "failed", "cancelled"}

\* exit codes a child process may close with; null is a death by signal
ExitCodes == {JNum(0), JNum(1)}
\* the negative errno 'close' reports after a failed spawn
SpawnFailCode == JNum(0 - 2)

\* what the child process may write
Chunk_object == <<"{", "\"">> \o Chars_generatedFiles \o <<"\"", ":", "[", "]", "}">>
Chunk_empty_object == <<"{", "}">>
Chunk_prose == <<"o", "k">>
OutChunks(agentName) ==
  CASE agentName = "pm-agent" -> {Chunk_prose}
    [] agentName = "engineer-agent" -> {Chunk_object, Chunk_empty_object, Chunk_prose}
    [] OTHER -> {Chunk_object, Chunk_prose}
ErrChunks == {<<"d", "e", "n", "i", "e", "d">>}

\* how an invocation starts: the agent file is missing, spawn fails, or it runs
Launches == {"ok", "nofile", "spawnfail"}
\* the launches to choose from when process p settles: only the engineer's
\* continuation starts another invocation
LaunchesAfter(p) == IF procs[p].agent = "engineer-agent" THEN Launches ELSE {"ok"}

\* currentResult = { status: 'idle' }
InitResult ==
  [status |-> "idle", pmOutput |-> Undefined, engineerOutput |-> Undefined,
   reviewerOutput |-> Undefined, error |-> Undefined]

\* what a call of executeWorkflow returned: nothing yet, a fresh object (value),
\* or the object this.currentResult itself (alias); statusAtReturn is the status
\* field of the returned object at the moment of the return
NoReturn == [kind |-> "none", statusAtReturn |-> "idle", value |-> InitResult]

\* the text a parse call is given, in its parts: text before, a body, text
\* after, and whether the body stands in a fenced block
NoRawOutput == [pre |-> <<>>, body |-> <<>>, post |-> <<>>, fenced |-> FALSE]
\* no parse call has returned
NotExtracted == [by |-> "none", ok |-> TRUE, v |-> Undefined]

\* the state after new WorkflowManager(...)
Constructed ==
  /\ currentStatus = "idle"
  /\ currentResult = InitResult
  /\ runnerListeners = TRUE
  /\ currentProcess = 0
  /\ procs = <<>>
  /\ runs = <<>>
  /\ stopCount = 0
  /\ microtasks = <<>>
  /\ checkpoint = "no"
  /\ statusTrail = <<>>
  /\ settledTrail = <<>>
  /\ eventTrail = <<>>

\* the state after new WorkflowPanel(extensionUri)
PanelConstructed ==
  /\ managers = <<>>
  /\ _workflowManager = 0
  /\ _approvalResolver = 0
  /\ _currentStatus = "idle"

\* no call of analyzeCodeStructure has returned
NotAnalyzed == [called |-> FALSE, ok |-> TRUE, v |-> Undefined]

\* no call of analyzeCodeStructure is made
NoAnalysis ==
  /\ files = <<>>
  /\ summary = NotAnalyzed

Init ==
  /\ Constructed
  /\ rawOutput = NoRawOutput
  /\ extracted = NotExtracted
  /\ PanelConstructed
  /\ NoAnalysis

\* the state of the two objects as one record, so that a handler is a function
\* from state to state.  pidZero is what a handler reads as the pid of a child
\* whose spawn failed, a field that was never assigned: 0 or a stray number
Here ==
  [currentStatus |-> currentStatus, currentResult |-> currentResult,
   runnerListeners |-> runnerListeners, currentProcess |-> currentProcess,
   procs |-> procs, runs |-> runs, microtasks |-> microtasks,
   checkpoint |-> checkpoint, trail |-> <<>>, settled |-> <<>>, emitted |-> <<>>,
   pidZero |-> FALSE]

Becomes(after) ==
  \E M \in {after} :
    /\ Len(M.procs) <= MaxProcs
    /\ currentStatus' = M.currentStatus
    /\ currentResult' = M.currentResult
    /\ runnerListeners' = M.runnerListeners
    /\ currentProcess' = M.currentProcess
    /\ procs' = M.procs
    /\ runs' = M.runs
    /\ microtasks' = M.microtasks
    /\ checkpoint' = M.checkpoint
    /\ statusTrail' = M.trail
    /\ settledTrail' = M.settled
    /\ eventTrail' = M.emitted
    /\ UNCHANGED <<rawOutput, extracted, panelVars, analysisVars>>

\* F applied to the value of v: the argument is computed once, before the
\* call, as the arguments of a call are in the source
Call(v, F(_)) == CHOOSE out \in {F(x) : x \in {v}} : TRUE

(***************************************************************************)
(* Events.  An entry of eventTrail is one emit(...) call, or the call of   *)
(* the approval callback; proc and run say whose it is (0 when it belongs  *)
(* to none), and payload is what the listeners are handed.                 *)
(***************************************************************************)
Event(src, type, p, r, agentName, payload) ==
  [src |-> src, type |-> type, proc |-> p, run |-> r, agent |-> agentName,
   payload |-> payload]

\* the message of the agentEvent the WorkflowManager constructor forwards for
\* a runner event (lines 80-94): the listener of 'progress' reads data.message,
\* a property the runner's event does not have
ForwardedMessage(type, agentName, payload) ==
  CASE type = "start" -> JStr(<<agentName, "<is starting>">>)
    [] type = "progress" ->
         GetProp(JObj(<< <<"agentName", JStr(<<agentName>>)>>, <<"chunk", payload>> >>),
                 "message")
    [] type = "complete" -> JStr(<<agentName, "<has completed>">>)
    [] OTHER -> payload

\* this.emit(type, {agentName, ...}) of ClaudeCodeRunner and, while the
\* manager's listeners are on the runner, emitAgentEvent (lines 409-423);
\* 'cancelled' has no listener
RunnerEmit(M, type, p, r, agentName, payload) ==
  LET own == Event("runner", type, p, r, agentName, payload)
      forwarded == Event("manager", type, p, r, agentName,
                         ForwardedMessage(type, agentName, payload))
  IN  IF M.runnerListeners /\ type # "cancelled"
      THEN [M EXCEPT !.emitted = @ \o <<own, forwarded>>]
      ELSE [M EXCEPT !.emitted = Append(@, own)]

(***************************************************************************)
(* WorkflowManager: the body of executeWorkflow, as the steps between its  *)
(* awaits.  r is the call of executeWorkflow that is running.              *)
(***************************************************************************)
\* invoked, approved and stoppedPlanning record what happened to the call: the
\* agents it invoked, the decision its approval callback resolved with, and
\* whether stop() was called while it was in Planning with its child running
NewRun ==
  [pc |-> "called", proc |-> 0, pmOutput |-> Undefined, engineerOutput |-> Undefined,
   invoked |-> <<>>, approved |-> "none", stoppedPlanning |-> FALSE, ret |-> NoReturn]

\* a child process with the closure of its invocation: settled says whether
\* the result of the invocation has reached the call of executeWorkflow that
\* awaits it, and outcome by which path the promise was resolved
NewProc(r, agentName, launch) ==
  [run |-> r, agent |-> agentName,
   state |-> IF launch = "ok" THEN "running" ELSE "spawnfail",
   kills |-> 0, stopped |-> FALSE, stdout |-> <<>>, stderr |-> <<>>, nOut |-> 0,
   nErr |-> 0,
   settled |-> FALSE, outcome |-> "pending", timerPending |-> TRUE]

\* updateStatus(status) without its emit
updateStatus_Silent(M, status) ==
  [M EXCEPT !.currentStatus = status, !.currentResult.status = status,
            !.trail = Append(@, status)]

\* the 'statusChange' event: the listeners are handed the status, and result
\* is what getResult() shows them while they run (its status and its error)
StatusChange(status, result) ==
  [src |-> "manager", type |-> "statusChange", proc |-> 0, run |-> 0, agent |-> "",
   payload |-> JStr(<<status>>),
   result |-> [status |-> result.status, error |-> result.error]]

\* updateStatus(status): the listeners run inside emit, after the two
\* assignments and before updateStatus returns
updateStatus(M, status) ==
  LET M1 == [M EXCEPT !.currentStatus = status, !.currentResult.status = status,
                      !.trail = Append(@, status)]
  IN  [M1 EXCEPT !.emitted = Append(@, StatusChange(status, M1.currentResult))]

\* return of a fresh WorkflowResult object from executeWorkflow
ReturnFresh(M, r, value) ==
  [M EXCEPT !.runs[r].pc = "returned",
            !.runs[r].ret = [kind |-> "fresh", statusAtReturn |-> value.status,
                             value |-> value]]

\* handleError replacing the current result by one that holds the status and
\* the error only
handleError_DropsOutputs(M, r, message, errorMessage) ==
  LET M1 == updateStatus(M, "failed")
      M2 == [M1 EXCEPT !.currentResult =
               [InitResult EXCEPT !.status = "failed",
                                  !.error = JStr(<<message, ": ">> \o errorMessage)]]
  IN  [M2 EXCEPT !.runs[r].pc = "returned",
                 !.runs[r].ret = [kind |-> "alias",
                                  statusAtReturn |-> M2.currentResult.status,
                                  value |-> InitResult]]

\* handleError returning a new failed result without the call of updateStatus
handleError_NoStatusUpdate(M, r, message, errorMessage) ==
  LET M2 == [M EXCEPT !.currentResult.error = JStr(<<message, ": ">> \o errorMessage)]
  IN  [M2 EXCEPT !.runs[r].pc = "returned",
                 !.runs[r].ret = [kind |-> "fresh", statusAtReturn |-> "failed",
                                  value |-> [M2.currentResult EXCEPT !.status = "failed"]]]

\* handleError(message, error), whose result executeWorkflow returns: the
\* returned object is this.currentResult itself
handleError(M, r, message, errorMessage) ==
  LET M1 == updateStatus(M, "failed")
      M2 == [M1 EXCEPT !.currentResult.error = JStr(<<message, ": ">> \o errorMessage)]
  IN  [M2 EXCEPT !.runs[r].pc = "returned",
                 !.runs[r].ret = [kind |-> "alias",
                                  statusAtReturn |-> M2.currentResult.status,
                                  value |-> InitResult]]

\* the promise of an invocation: pending, resolved with an AgentResult, or
\* rejected with an Error
Pending == [settle |-> "pending", result |-> [success |-> FALSE, output |-> <<>>, error |-> Undefined],
            message |-> <<>>]
Resolved(result) == [settle |-> "resolved", result |-> result, message |-> <<>>]
Rejected(message) ==
  [settle |-> "rejected", result |-> [success |-> FALSE, output |-> <<>>, error |-> Undefined],
   message |-> message]

\* the entry of settledTrail for a promise that resolved: the process (0 when
\* none was spawned), the awaiting call, the agent, which path resolved it, and
\* the AgentResult
Settled(p, r, agentName, outcome, result) ==
  [proc |-> p, run |-> r, agent |-> agentName, outcome |-> outcome, result |-> result]

\* the promise jobs between the return of the async invokeAgent, which
\* returns the promise its executor made, and the line after the await on it
\* in executeWorkflow: the job that adopts the returned promise as the result
\* of invokeAgent (queued at the return, it calls then() on it), the job that
\* resolves invokeAgent's own promise (queued by then() if the promise is
\* settled, else when resolve() is called), the resumption of run*Agent after
\* its await, the resumption of executeWorkflow.  From the promise an async
\* approval callback returned (WorkflowPanel.ts:150-162), once it is resolved:
\* the job that resolves the callback's own promise, the resumption of
\* executeWorkflow.
InvokeJobs == 4
ApprovalJobs == 2

\* a queued job: the continuation of call r of executeWorkflow, jobs away.
\* For an invocation it holds the promise of process p (0 when none was
\* spawned), Pending until resolve() is called, which path resolved it, and
\* how the agent invoked next, if any, will launch
Settlement(r, p, agentName, promise, outcome, launch, jobs) ==
  [run |-> r, kind |-> "settlement", proc |-> p, agent |-> agentName,
   promise |-> promise, outcome |-> outcome, approved |-> FALSE, launch |-> launch,
   jobs |-> jobs]
Decision(r, approved, launch) ==
  [run |-> r, kind |-> "decision", proc |-> 0, agent |-> "", promise |-> Pending,
   outcome |-> "pending", approved |-> approved, launch |-> launch,
   jobs |-> ApprovalJobs]

\* ClaudeCodeRunner.invokeAgent up to the return of its promise.  With no
\* definition file the promise is settled inside the executor, and the code
\* awaiting it resumes in a later job.  emit('error') with no 'error' listener
\* throws inside the executor, which rejects the promise.  A spawn that fails
\* returns a child all the same, whose 'error' event is emitted from a
\* nextTick callback.  The job queued at the return finds the promise of a
\* child that was spawned pending, since the events of a running child reach
\* the handlers after the jobs, and does nothing but call then(): it is left
\* out of the queue.
invokeAgent(M0, r, agentName, prompt, launch) ==
  LET M == RunnerEmit([M0 EXCEPT !.runs[r].invoked = Append(@, agentName)],
                      "start", 0, r, agentName, prompt)
      missing == [success |-> FALSE, output |-> <<>>,
                  error |-> JStr(MissingAgentError(agentName))]
      p == Len(M.procs) + 1
      spawned == [M EXCEPT !.procs = Append(@, NewProc(r, agentName, launch)),
                           !.currentProcess = p,
                           !.runs[r].proc = p]
  IN  CASE launch = "nofile" /\ M.runnerListeners ->
             [RunnerEmit(M, "error", 0, r, agentName, missing.error)
                EXCEPT !.microtasks =
                  Append(@, Settlement(r, 0, agentName, Resolved(missing), "nofile",
                                       "nofile", InvokeJobs))]
        [] launch = "nofile" /\ ~M.runnerListeners ->
             [M EXCEPT !.microtasks =
                Append(@, Settlement(r, 0, agentName, Rejected(UnhandledErrorMessage),
                                     "nofile", "nofile", InvokeJobs))]
        [] launch = "spawnfail" ->
             [spawned EXCEPT !.microtasks =
                Append(@, Settlement(r, p, agentName, Pending, "pending", "nofile",
                                     InvokeJobs))]
        [] OTHER -> spawned

\* executeWorkflow lines 157-171, once runReviewerAgent has settled
AfterReviewer(M, r, promise) ==
  IF promise.settle = "rejected" THEN handleError(M, r, MsgWorkflowError, promise.message)
  ELSE IF ~promise.result.success \/ promise.result.output = <<>>
  THEN handleError(M, r, MsgReviewerFailed, StringOf(promise.result.error))
  ELSE Call(parseReviewerOutput(promise.result.output), LAMBDA parsed :
         IF ~parsed.ok THEN handleError(M, r, MsgWorkflowError, SyntaxErrorMessage)
         ELSE LET M1 == [M EXCEPT !.currentResult.reviewerOutput = parsed.v]
                  M2 == updateStatus(M1, "completed")
              IN  ReturnFresh(M2, r,
                    [status |-> "completed", pmOutput |-> M.runs[r].pmOutput,
                     engineerOutput |-> M.runs[r].engineerOutput,
                     reviewerOutput |-> parsed.v, error |-> Undefined]))

\* runReviewerAgent(engineerOutput), up to the await on it
runReviewerAgent(M, r, launch) ==
  IF BuildReviewerPromptThrows(M.runs[r].engineerOutput)
  THEN handleError(M, r, MsgWorkflowError, TypeErrorMessage)
  ELSE invokeAgent([M EXCEPT !.runs[r].pc = "reviewer"], r, "reviewer-agent",
                   buildReviewerPrompt(M.runs[r].engineerOutput), launch)

\* executeWorkflow lines 147-156, once runEngineerAgent has settled
AfterEngineer(M, r, promise, launch) ==
  IF promise.settle = "rejected" THEN handleError(M, r, MsgWorkflowError, promise.message)
  ELSE IF ~promise.result.success \/ promise.result.output = <<>>
  THEN handleError(M, r, MsgEngineerFailed, StringOf(promise.result.error))
  ELSE Call(parseEngineerOutput(promise.result.output), LAMBDA parsed :
         IF ~parsed.ok THEN handleError(M, r, MsgWorkflowError, SyntaxErrorMessage)
         ELSE LET M1 == [M EXCEPT !.currentResult.engineerOutput = parsed.v,
                                  !.runs[r].engineerOutput = parsed.v]
              IN  Call(updateStatus(M1, "reviewing"),
                       LAMBDA M2 : runReviewerAgent(M2, r, launch)))

\* runEngineerAgent invoking the reviewer-agent in place of the engineer-agent
runEngineerAgent_InvokesReviewer(M, r, launch) ==
  invokeAgent([M EXCEPT !.runs[r].pc = "engineer"], r, "reviewer-agent",
              buildEngineerPrompt(M.runs[r].pmOutput), launch)

\* runEngineerAgent(pmOutput), up to the await on it
runEngineerAgent(M, r, launch) ==
  invokeAgent([M EXCEPT !.runs[r].pc = "engineer"], r, "engineer-agent",
              buildEngineerPrompt(M.runs[r].pmOutput), launch)

\* executeWorkflow lines 139-146 without the test of the decision: the
\* engineer is invoked whatever the callback resolved with
AfterApproval_Ungated(M, r, approved, launch) ==
  LET M0 == [M EXCEPT !.runs[r].approved = IF approved THEN "yes" ELSE "no"]
  IN  runEngineerAgent(updateStatus(M0, "implementing"), r, launch)

\* executeWorkflow lines 139-146 without updateStatus('cancelled') on a refusal
AfterApproval_NoCancelStatus(M, r, approved, launch) ==
  LET M0 == [M EXCEPT !.runs[r].approved = IF approved THEN "yes" ELSE "no"]
  IN  IF ~approved
      THEN ReturnFresh(M0, r,
             [status |-> "cancelled", pmOutput |-> M.runs[r].pmOutput,
              engineerOutput |-> Undefined, reviewerOutput |-> Undefined,
              error |-> Undefined])
      ELSE runEngineerAgent(updateStatus(M0, "implementing"), r, launch)

\* executeWorkflow lines 139-146, once the approval callback's promise resolved
AfterApproval(M, r, approved, launch) ==
  LET M0 == [M EXCEPT !.runs[r].approved = IF approved THEN "yes" ELSE "no"]
  IN  IF ~approved
      THEN ReturnFresh(updateStatus(M0, "cancelled"), r,
             [status |-> "cancelled", pmOutput |-> M.runs[r].pmOutput,
              engineerOutput |-> Undefined, reviewerOutput |-> Undefined,
              error |-> Undefined])
      ELSE runEngineerAgent(updateStatus(M0, "implementing"), r, launch)

\* executeWorkflow lines 127-137 with the approval callback called twice
AfterPM_CallsTwice(M, r, promise) ==
  IF promise.settle = "rejected" THEN handleError(M, r, MsgWorkflowError, promise.message)
  ELSE IF ~promise.result.success \/ promise.result.output = <<>>
  THEN handleError(M, r, MsgPMFailed, StringOf(promise.result.error))
  ELSE Call(parsePMOutput(promise.result.output), LAMBDA pmOutput :
         LET M1 == [M EXCEPT !.currentResult.pmOutput = pmOutput,
                             !.runs[r].pmOutput = pmOutput]
             M2 == updateStatus(M1, "awaiting_approval")
         IN  [M2 EXCEPT !.runs[r].pc = "approval",
                        !.emitted = @ \o <<Event("manager", "approvalCallback", 0, r, "",
                                                 pmOutput),
                                           Event("manager", "approvalCallback", 0, r, "",
                                                 pmOutput)>>])

\* executeWorkflow lines 127-137, once runPMAgent has settled: it ends in the
\* call of approvalCallback(pmOutput), whose promise is awaited
AfterPM(M, r, promise) ==
  IF promise.settle = "rejected" THEN handleError(M, r, MsgWorkflowError, promise.message)
  ELSE IF ~promise.result.success \/ promise.result.output = <<>>
  THEN handleError(M, r, MsgPMFailed, StringOf(promise.result.error))
  ELSE Call(parsePMOutput(promise.result.output), LAMBDA pmOutput :
         LET M1 == [M EXCEPT !.currentResult.pmOutput = pmOutput,
                             !.runs[r].pmOutput = pmOutput]
             M2 == updateStatus(M1, "awaiting_approval")
         IN  [M2 EXCEPT !.runs[r].pc = "approval",
                        !.emitted = Append(@, Event("manager", "approvalCallback", 0, r,
                                                    "", pmOutput))])

\* runPMAgent(task), up to the await on it
runPMAgent(M, r, launch) ==
  invokeAgent([M EXCEPT !.runs[r].pc = "pm"], r, "pm-agent", buildPMPrompt, launch)

\* the continuation of call r of executeWorkflow after the await it is
\* suspended at, given the promise it awaited
Continue(M, r, promise, launch) ==
  CASE M.runs[r].pc = "pm" -> AfterPM(M, r, promise)
    [] M.runs[r].pc = "engineer" -> AfterEngineer(M, r, promise, launch)
    [] OTHER -> AfterReviewer(M, r, promise)

\* resolve() has been called for process p and the call that awaits the
\* promise has not yet resumed
Resolving(M, p) ==
  \E j \in DOMAIN M.microtasks :
    /\ M.microtasks[j].kind = "settlement"
    /\ M.microtasks[j].proc = p
    /\ M.microtasks[j].promise.settle # "pending"

\* resolve(result) in a handler of process p: the first call settles the
\* promise, the awaiting executeWorkflow resumes in a later job, and a later
\* call does nothing.  The job that resolves invokeAgent's own promise is
\* queued here, unless the job that adopts the promise has yet to run
Resolve(M, p, result, outcome, launch) ==
  LET adopting == {j \in DOMAIN M.microtasks :
                     /\ M.microtasks[j].kind = "settlement"
                     /\ M.microtasks[j].proc = p
                     /\ M.microtasks[j].promise.settle = "pending"}
  IN  IF M.procs[p].settled \/ Resolving(M, p) THEN M
      ELSE IF adopting # {}
      THEN [M EXCEPT !.microtasks =
              [j \in DOMAIN M.microtasks |->
                 IF j \in adopting
                 THEN [M.microtasks[j] EXCEPT !.promise = Resolved(result),
                                              !.outcome = outcome, !.launch = launch]
                 ELSE M.microtasks[j]]]
      ELSE [M EXCEPT !.microtasks =
              Append(@, Settlement(M.procs[p].run, p, M.procs[p].agent, Resolved(result),
                                   outcome, launch, InvokeJobs - 1))]

\* the result of the invocation reaches the call that awaits it
Receive(M, t) ==
  IF t.promise.settle # "resolved" THEN M
  ELSE Call([M EXCEPT !.settled = Append(@, Settled(t.proc, t.run, t.agent, t.outcome,
                                                    t.promise.result))],
            LAMBDA M1 :
              IF t.proc = 0 THEN M1
              ELSE [M1 EXCEPT !.procs[t.proc].settled = TRUE,
                              !.procs[t.proc].outcome = t.outcome])

\* the last job of a queued continuation: executeWorkflow resumes after the
\* await it stopped at
RunMicrotask(M, t) ==
  IF t.kind = "decision" THEN AfterApproval(M, t.run, t.approved, t.launch)
  ELSE Call(Receive(M, t), LAMBDA M1 : Continue(M1, t.run, t.promise, t.launch))

\* the queued jobs run oldest first, up to and with the first that resumes a
\* call of executeWorkflow; a job that is not the last of its continuation
\* queues the next one, and the job that adopts a promise still pending
\* queues nothing
RECURSIVE RunJobs(_)
RunJobs(M) ==
  IF M.microtasks = <<>> THEN M
  ELSE Call(Head(M.microtasks), LAMBDA t :
         Call([M EXCEPT !.microtasks = Tail(@)], LAMBDA M1 :
           IF t.kind = "settlement" /\ t.promise.settle = "pending" THEN RunJobs(M1)
           ELSE IF t.jobs > 1
           THEN RunJobs([M1 EXCEPT !.microtasks = Append(@, [t EXCEPT !.jobs = @ - 1])])
           ELSE RunMicrotask(M1, t)))

\* the microtask checkpoint after a callback of the event loop: the queued
\* jobs run until none is left
RECURSIVE RunMicrotasks(_)
RunMicrotasks(M) ==
  IF M.microtasks = <<>> THEN M ELSE Call(RunJobs(M), RunMicrotasks)

(***************************************************************************)
(* ClaudeCodeRunner: the event handlers of one invocation and stop().      *)
(* emit('error', ...) throws when the runner has no 'error' listener; the  *)
(* handler then ends there, and the listeners after it are not called.     *)
(***************************************************************************)
\* this.currentProcess.kill().  A child whose spawn failed is no process: until
\* its 'error' event is emitted the child object keeps its handle, whose pid
\* was never assigned.  When it reads 0 the signal goes to the process group
\* of the host, which it terminates; with a stray number kill() fails and
\* returns
Kill(M) ==
  IF M.procs[M.currentProcess].state = "spawnfail" /\ M.pidZero
  THEN [M EXCEPT !.procs[M.currentProcess].kills = @ + 1, !.checkpoint = "exited"]
  ELSE [M EXCEPT !.procs[M.currentProcess].kills = @ + 1]

\* what the pid of the runner's current child may read in a call of kill()
PidReads(M) ==
  IF M.currentProcess # 0 /\ M.procs[M.currentProcess].state = "spawnfail"
  THEN BOOLEAN ELSE {FALSE}

\* the host process was terminated inside the handler: nothing after it runs
Exited(M) == M.checkpoint = "exited"

\* ClaudeCodeRunner.stop() without its test of the handle: it emits 'cancelled'
\* whether or not a process is running
RunnerStop_Unguarded(M) ==
  IF Exited(M) THEN M
  ELSE IF M.currentProcess = 0 THEN RunnerEmit(M, "cancelled", 0, 0, "", Undefined)
  ELSE LET K == Kill(M)
       IN  IF Exited(K) THEN K
           ELSE RunnerEmit([K EXCEPT !.currentProcess = 0,
                                     !.procs[M.currentProcess].stopped = TRUE],
                           "cancelled", 0, 0, "", Undefined)

\* ClaudeCodeRunner.stop(); the 'cancelled' event has no listener; stopped
\* records that it was stop() that killed the process.  No call runs in a
\* host that was terminated
RunnerStop(M) ==
  IF M.currentProcess # 0 /\ ~Exited(M)
  THEN LET K == Kill(M)
       IN  IF Exited(K) THEN K
           ELSE RunnerEmit([K EXCEPT !.currentProcess = 0,
                                     !.procs[M.currentProcess].stopped = TRUE],
                           "cancelled", 0, 0, "", Undefined)
  ELSE M

\* process p once 'close' was emitted: no event of it follows; its timer may
\* still be pending and its promise may still be unsettled
Closed(proc) == [proc EXCEPT !.state = "closed"]

\* the two 'close' listeners of process p (lines 190-208 and 238-240); a
\* throw of the first keeps the second from running
OnClose(M, p, code, launch) ==
  LET M1 == [M EXCEPT !.currentProcess = 0]
      cleared == [M1 EXCEPT !.procs[p].timerPending = FALSE]
      after ==
        IF code = JNum(0)
        THEN Resolve(RunnerEmit(cleared, "complete", p, M.procs[p].run, M.procs[p].agent,
                                JStr(M.procs[p].stdout)),
                     p,
                     [success |-> TRUE, output |-> M.procs[p].stdout, error |-> Undefined],
                     "complete", launch)
        ELSE IF ~M.runnerListeners THEN M1
        ELSE Resolve(RunnerEmit(cleared, "error", p, M.procs[p].run, M.procs[p].agent,
                                JStr(ExitError(code, M.procs[p].stderr))),
                     p,
                     [success |-> FALSE, output |-> M.procs[p].stdout,
                      error |-> JStr(ExitError(code, M.procs[p].stderr))],
                     "exitfail", launch)
  IN  [after EXCEPT !.procs[p] = Closed(@)]

\* the 'error' listener of process p (lines 211-220); the invocation it
\* resolves has failed, so that no agent is invoked after it
OnError(M, p) ==
  LET M1 == [M EXCEPT !.currentProcess = 0, !.procs[p].state = "errored"]
  IN  IF ~M.runnerListeners THEN M1
      ELSE Resolve(RunnerEmit(M1, "error", p, M.procs[p].run, M.procs[p].agent,
                              JStr(SpawnError)),
                   p, [success |-> FALSE, output |-> <<>>, error |-> JStr(SpawnError)],
                   "spawnerror", "nofile")

\* the timeout callback of the invocation of process p (lines 223-235)
OnTimeout(M, p, launch) ==
  LET M0 == [M EXCEPT !.procs[p].timerPending = FALSE]
  IN  IF M0.currentProcess = 0 THEN M0
      ELSE LET K == Kill(M0)
               M1 == [K EXCEPT !.currentProcess = 0]
           IN  IF Exited(K) THEN K
               ELSE IF ~M.runnerListeners THEN M1
               ELSE Resolve(RunnerEmit(M1, "error", p, M.procs[p].run, M.procs[p].agent,
                                       JStr(TimeoutError(DefaultTimeout))),
                            p,
                            [success |-> FALSE, output |-> M.procs[p].stdout,
                             error |-> JStr(TimeoutError(DefaultTimeout))],
                            "timeout", launch)

(***************************************************************************)
(* Actions: the calls a client makes and the events the runtime delivers.  *)
(***************************************************************************)
\* the children whose spawn failed and whose 'error' event is still to be
\* emitted: the nextTick callbacks queued, which run in the order of the spawns
Ticks(ps) == {p \in DOMAIN ps : ps[p].state = "spawnfail"}

\* what runs next once a promise job has returned: the jobs left, then the
\* nextTick callbacks queued meanwhile
AfterJob(M) ==
  [M EXCEPT !.checkpoint = IF M.microtasks # <<>> THEN "jobs"
                           ELSE IF Ticks(M.procs) # {} THEN "ticks" ELSE "no"]

\* the event loop takes its next event: no callback and no job is queued
LoopFree == checkpoint = "no" /\ microtasks = <<>> /\ Ticks(procs) = {}

\* a call of executeWorkflow(task, approvalCallback), up to its first await
executeWorkflow(launch) ==
  /\ checkpoint = "no"
  /\ Len(runs) < MaxRuns
  /\ LET r == Len(runs) + 1
         M == updateStatus([Here EXCEPT !.runs = Append(@, NewRun)], "planning")
     IN  Becomes(runPMAgent(M, r, launch))
  /\ UNCHANGED stopCount

\* some call of executeWorkflow has a decision queued for it
Decided(r) ==
  \E i \in DOMAIN microtasks : microtasks[i].kind = "decision" /\ microtasks[i].run = r

\* the client resolves the promise approvalCallback returned with the user's
\* decision; launch is how the engineer-agent will launch if it is invoked
Approval(r, approved, launch) ==
  /\ checkpoint = "no"
  /\ runs[r].pc = "approval"
  /\ ~Decided(r)
  /\ Becomes([Here EXCEPT !.microtasks = Append(@, Decision(r, approved, launch))])
  /\ UNCHANGED stopCount

\* the promise jobs run: once the client's code has returned to the event
\* loop and the nextTick callbacks have run, and before any event is
\* delivered; each step ends with a call of executeWorkflow resumed, or with
\* the queue empty
MicrotaskCheckpoint ==
  /\ microtasks # <<>>
  /\ checkpoint = "jobs" \/ (checkpoint = "no" /\ Ticks(procs) = {})
  /\ Becomes(AfterJob(RunJobs(Here)))
  /\ UNCHANGED stopCount

\* the chunks the children have written to stderr, all children together
RECURSIVE StderrChunks(_)
StderrChunks(ps) == IF ps = <<>> THEN 0 ELSE Head(ps).nErr + StderrChunks(Tail(ps))

\* stdout 'data' of process p (lines 175-182)
StdoutData(p, chunk) ==
  /\ LoopFree
  /\ procs[p].state = "running"
  /\ procs[p].nOut < MaxChunks
  /\ procs' = [procs EXCEPT ![p].stdout = @ \o chunk, ![p].nOut = @ + 1]
  /\ statusTrail' = <<>>
  /\ settledTrail' = <<>>
  /\ eventTrail' = RunnerEmit(Here, "progress", p, procs[p].run, procs[p].agent,
                              JStr(chunk)).emitted
  /\ UNCHANGED <<currentStatus, currentResult, runnerListeners, currentProcess, runs,
                 stopCount, microtasks, checkpoint, rawOutput, extracted, panelVars,
                 analysisVars>>

\* stderr 'data' of process p (lines 185-187)
StderrData(p, chunk) ==
  /\ LoopFree
  /\ procs[p].state = "running"
  /\ StderrChunks(procs) < MaxErrChunks
  /\ procs' = [procs EXCEPT ![p].stderr = @ \o chunk, ![p].nErr = @ + 1]
  /\ statusTrail' = <<>>
  /\ settledTrail' = <<>>
  /\ eventTrail' = <<>>
  /\ UNCHANGED <<currentStatus, currentResult, runnerListeners, currentProcess, runs,
                 stopCount, microtasks, checkpoint, rawOutput, extracted, panelVars,
                 analysisVars>>

\* 'close' of process p: with an exit code, with null after a signal, or with
\* the negative errno after a failed spawn
ProcessClose(p, code, launch) ==
  /\ LoopFree
  /\ \/ procs[p].state = "running" /\ code \in ExitCodes
     \/ procs[p].state = "running" /\ procs[p].kills > 0 /\ code = JNull
     \/ procs[p].state = "errored" /\ procs[p].settled /\ code = SpawnFailCode
  /\ Becomes(AfterJob(RunMicrotasks(OnClose(Here, p, code, launch))))
  /\ UNCHANGED stopCount

\* 'error' of process p, which could not be spawned: the nextTick callback
\* that emits it runs once the code that called spawn has returned, before
\* the promise jobs queued by then, or after the promise jobs when it was a
\* job that called spawn; after it the callbacks left run, then the jobs
ProcessError(p) ==
  /\ checkpoint \in {"no", "ticks"}
  /\ p \in Ticks(procs)
  /\ \A q \in Ticks(procs) : p <= q
  /\ \E M \in {OnError(Here, p)} :
       Becomes([M EXCEPT !.checkpoint = IF Ticks(M.procs) # {} THEN "ticks"
                                        ELSE IF M.microtasks # <<>> THEN "jobs"
                                        ELSE "no"])
  /\ UNCHANGED stopCount

\* the timer of the invocation of process p fires
Timeout(p, launch) ==
  /\ LoopFree
  /\ procs[p].timerPending
  /\ Becomes(AfterJob(RunMicrotasks(OnTimeout(Here, p, launch))))
  /\ UNCHANGED stopCount

\* the calls of stop() and of dispose() made so far; dispose() is called on a
\* manager that still has its listeners, that is at most once
StopCalls == stopCount + IF runnerListeners THEN 0 ELSE 1

\* the record, in every call of executeWorkflow that waits for a running
\* pm-agent child, that stop() was called
NoteStop(M) ==
  [M EXCEPT !.runs = [r \in DOMAIN M.runs |->
                        IF /\ M.runs[r].pc = "pm"
                           /\ M.runs[r].proc # 0
                           /\ M.procs[M.runs[r].proc].state = "running"
                        THEN [M.runs[r] EXCEPT !.stoppedPlanning = TRUE]
                        ELSE M.runs[r]]]

\* WorkflowManager.stop()
stop ==
  /\ checkpoint = "no"
  /\ StopCalls < MaxStops
  /\ \E zero \in PidReads(Here) :
       \E M \in {RunnerStop(NoteStop([Here EXCEPT !.pidZero = zero]))} :
         Becomes(IF Exited(M) THEN M ELSE updateStatus(M, "cancelled"))
  /\ stopCount' = stopCount + 1

\* WorkflowManager.dispose(): runner.dispose() is stop() and removeAllListeners()
dispose ==
  /\ checkpoint = "no"
  /\ runnerListeners
  /\ StopCalls < MaxStops
  /\ \E zero \in PidReads(Here) :
       \E M \in {RunnerStop([Here EXCEPT !.pidZero = zero])} :
         Becomes(IF Exited(M) THEN M ELSE [M EXCEPT !.runnerListeners = FALSE])
  /\ UNCHANGED stopCount

Next ==
  \/ \E launch \in Launches : executeWorkflow(launch)
  \/ \E r \in DOMAIN runs, approved \in BOOLEAN, launch \in Launches :
       Approval(r, approved, launch)
  \/ \E p \in DOMAIN procs : \E chunk \in OutChunks(procs[p].agent) : StdoutData(p, chunk)
  \/ \E p \in DOMAIN procs, chunk \in ErrChunks : StderrData(p, chunk)
  \/ \E p \in DOMAIN procs : \E code \in ExitCodes \cup {JNull, SpawnFailCode},
                               launch \in LaunchesAfter(p) : ProcessClose(p, code, launch)
  \/ \E p \in DOMAIN procs : ProcessError(p)
  \/ \E p \in DOMAIN procs : \E launch \in LaunchesAfter(p) : Timeout(p, launch)
  \/ stop
  \/ dispose
  \/ MicrotaskCheckpoint

Spec == Init /\ [][Next]_vars

(***************************************************************************)
(* The parse functions on their own: a call of parsePMOutput,              *)
(* parseEngineerOutput or parseReviewerOutput on a text assembled from the *)
(* parts below.                                                            *)
(***************************************************************************)
\* the length of the one output longer than the prefix echoed by the placeholder
LongOutputLen == 201

\* a plan with one task, implement add(), of complexity 1
Body_plan ==
  <<"{", "\"", "i", "m", "p", "l", "e", "m", "e", "n", "t", "a", "t", "i", "o", "n", "P",
  "l", "a", "n", "\"", ":", "{", "\"", "t", "a", "s", "k", "s", "\"", ":", "[", "{", "\"",
  "d", "e", "s", "c", "r", "i", "p", "t", "i", "o", "n", "\"", ":", "\"", "i", "m", "p",
  "l", "e", "m", "e", "n", "t", " ", "a", "d", "d", "(", ")", "\"", "}", "]", ",", "\"",
  "e", "s", "t", "i", "m", "a", "t", "e", "d", "C", "o", "m", "p", "l", "e", "x", "i", "t",
  "y", "\"", ":", "1", "}", "}">>

\* an object with nested objects and arrays
Body_nested ==
  <<"{", "\"", "a", "\"", ":", "{", "\"", "b", "\"", ":", "[", "1", ",", "{", "\"", "c",
  "\"", ":", "2", "}", "]", "}", ",", "\"", "d", "\"", ":", "3", "}">>

\* an object whose string value holds a closing brace
Body_close_brace_in_string ==
  <<"{", "\"", "a", "\"", ":", "\"", "}", "\"", "}">>

\* an object whose string value holds an opening brace
Body_open_brace_in_string ==
  <<"{", "\"", "a", "\"", ":", "\"", "{", "\"", "}">>

\* an object whose string value holds three backquotes
Body_fence_in_string ==
  <<"{", "\"", "a", "\"", ":", "\"">> \o FenceClose \o <<"\"", "}">>

\* an object with a key that is an array index after one that is not
Body_index_key ==
  <<"{", "\"", "b", "\"", ":", "1", ",", "\"", "1", "\"", ":", "2", "}">>

\* an object between two form feeds
Body_form_feed ==
  <<"<FF>", "{", "}", "<FF>">>

\* an array of one object
Body_array ==
  <<"[", "{", "\"", "a", "\"", ":", "1", "}", "]">>

\* a JSON string
Body_string ==
  <<"\"", "o", "k", "\"">>

\* a JSON number
Body_number ==
  <<"7">>

\* an object cut short
Body_cut_short ==
  <<"{", "\"", "a", "\"", ":">>

\* prose
Body_prose ==
  <<"n", "o", " ", "j", "s", "o", "n">>

\* prose before the body
Pre_prose ==
  <<"P", "l", "a", "n", ":", " ">>

\* prose after the body
Post_prose ==
  <<" ", "d", "o", "n", "e">>

\* prose after the body that holds an object
Post_object ==
  <<" ", "{", "\"", "a", "\"", ":", "1", "}">>

\* prose longer than PlaceholderPrefixLen
Body_long == [i \in 1..LongOutputLen |-> IF i = LongOutputLen THEN "y" ELSE "x"]

Pres == {<<>>, Pre_prose}
Bodies ==
  {Body_plan, Body_nested, Body_close_brace_in_string, Body_open_brace_in_string,
   Body_fence_in_string, Body_index_key, Body_form_feed, Body_array, Body_string,
   Body_number, Body_cut_short, Body_prose, Body_long, <<>>}
Posts == {<<>>, Post_prose, Post_object}
RawOutputs == [pre : Pres, body : Bodies, post : Posts, fenced : BOOLEAN]

\* the text of an output: its body, in a fenced block on lines of its own when
\* fenced, between the text before and the text after
RawText(raw) ==
  IF raw.fenced
  THEN Flatten(<<raw.pre, FenceOpen, <<"\n">>, raw.body, <<"\n">>, FenceClose, raw.post>>)
  ELSE Flatten(<<raw.pre, raw.body, raw.post>>)

workflowVars ==
  <<currentStatus, currentResult, runnerListeners, currentProcess, procs, runs,
    stopCount, microtasks, checkpoint, statusTrail, settledTrail, eventTrail>>

\* this.parsePMOutput(output)
CallParsePMOutput ==
  /\ extracted' = [by |-> "parsePMOutput", ok |-> TRUE,
                   v |-> Call(RawText(rawOutput), parsePMOutput)]
  /\ UNCHANGED <<rawOutput, workflowVars, panelVars, analysisVars>>

\* this.parseEngineerOutput(output); ok = FALSE is the SyntaxError thrown
CallParseEngineerOutput ==
  /\ \E r \in {Call(RawText(rawOutput), parseEngineerOutput)} :
       extracted' = [by |-> "parseEngineerOutput", ok |-> r.ok, v |-> r.v]
  /\ UNCHANGED <<rawOutput, workflowVars, panelVars, analysisVars>>

\* this.parseReviewerOutput(output); ok = FALSE is the SyntaxError thrown
CallParseReviewerOutput ==
  /\ \E r \in {Call(RawText(rawOutput), parseReviewerOutput)} :
       extracted' = [by |-> "parseReviewerOutput", ok |-> r.ok, v |-> r.v]
  /\ UNCHANGED <<rawOutput, workflowVars, panelVars, analysisVars>>

ExtractInit ==
  /\ Constructed
  /\ rawOutput \in RawOutputs
  /\ extracted = NotExtracted
  /\ PanelConstructed
  /\ NoAnalysis

ExtractNext ==
  \/ CallParsePMOutput
  \/ CallParseEngineerOutput
  \/ CallParseReviewerOutput

ExtractSpec == ExtractInit /\ [][ExtractNext]_vars

(***************************************************************************)
(* Properties.  A step's status changes are read from the status before    *)
(* the step and the statuses the step assigned, in order.                  *)
(***************************************************************************)
ListedTransitions ==
  {<<"idle", "planning">>, <<"planning", "awaiting_approval">>, <<"planning", "failed">>,
   <<"awaiting_approval", "implementing">>, <<"awaiting_approval", "cancelled">>,
   <<"implementing", "reviewing">>, <<"implementing", "failed">>,
   <<"reviewing", "completed">>, <<"reviewing", "failed">>}

TerminalStatuses == {"completed", "failed", "cancelled"}

\* the status the i-th assignment of the step replaces
StatusBefore(i) == IF i = 1 THEN currentStatus ELSE statusTrail'[i - 1]

\* the step is a call of stop()
StopStep == stopCount' = stopCount + 1

\* C1: the status starts as idle, and every change of it is one of the listed
\* transitions, or a change to cancelled made by stop().
C1_OnlyListedTransitions ==
  /\ currentStatus = "idle"
  /\ [][\A i \in 1..Len(statusTrail') :
          StatusBefore(i) # statusTrail'[i] =>
            \/ <<StatusBefore(i), statusTrail'[i]>> \in ListedTransitions
            \/ statusTrail'[i] = "cancelled" /\ StopStep]_vars

\* C2: a step sets the status to implementing, and engineer-agent is invoked,
\* only for a call of executeWorkflow that was suspended at the approval gate
\* (which it enters as awaiting_approval) and whose approval resolved true in
\* that step; every call that invoked engineer-agent has such an approval.
C2_ImplementingOnlyAfterApproval ==
  [][/\ (\E i \in 1..Len(statusTrail') : statusTrail'[i] = "implementing") =>
          \E r \in DOMAIN runs :
            /\ runs[r].pc = "approval"
            /\ runs[r].approved = "none"
            /\ runs'[r].approved = "yes"
     /\ \A r \in DOMAIN runs' :
          (\E i \in 1..Len(runs'[r].invoked) : runs'[r].invoked[i] = "engineer-agent") =>
            /\ runs'[r].approved = "yes"
            /\ r \in DOMAIN runs
            /\ runs[r].pc = "approval" \/ runs[r].approved = "yes"
     /\ \A p \in DOMAIN procs' :
          procs'[p].agent = "engineer-agent" => runs'[procs'[p].run].approved = "yes"]_vars

\* a call of executeWorkflow was approved, the status is implementing and its
\* engineer-agent child is running
C2_Witness ==
  \E r \in DOMAIN runs :
    /\ runs[r].approved = "yes"
    /\ runs[r].pc = "engineer"
    /\ currentStatus = "implementing"
    /\ procs[runs[r].proc].agent = "engineer-agent"
    /\ procs[runs[r].proc].state = "running"

\* C3: once the status is completed, failed or cancelled, no step changes it.
C3_TerminalStatusesStay ==
  [][(currentStatus \in TerminalStatuses) =>
       (\A i \in 1..Len(statusTrail') : statusTrail'[i] = currentStatus)]_vars

\* C4: a call of executeWorkflow during which stop() was called while it was in
\* Planning with its pm-agent child running returns a result with status
\* cancelled and no error, and the status is cancelled, not failed, when it
\* returns.
C4_StopInPlanningEndsCancelled ==
  [][\A r \in DOMAIN runs :
       (runs[r].stoppedPlanning /\ runs[r].pc # "returned" /\ runs'[r].pc = "returned") =>
         /\ runs'[r].ret.statusAtReturn = "cancelled"
         /\ currentStatus' = "cancelled"
         /\ currentResult'.error = Undefined]_vars

\* C5: a child process is sent kill at most once, and a call of stop() leaves
\* every child process that is running with exactly one kill sent to it.
C5_KilledExactlyOnce ==
  [][/\ \A p \in DOMAIN procs' : procs'[p].kills <= 1
     /\ StopStep =>
          \A p \in DOMAIN procs : procs[p].state = "running" => procs'[p].kills = 1]_vars

\* C6: a call of stop() resolves the approval wait of every call of
\* executeWorkflow suspended in it, and that call returns a result with status
\* cancelled.
C6_StopResolvesApprovalWait ==
  [][StopStep =>
       \A r \in DOMAIN runs :
         runs[r].pc = "approval" =>
           /\ runs'[r].pc = "returned"
           /\ runs'[r].ret.statusAtReturn = "cancelled"]_vars

\* the agents the call r of executeWorkflow has invoked before the step
InvokedBefore(r) == IF r \in DOMAIN runs THEN runs[r].invoked ELSE <<>>

\* C7: once stop() has been called, no step invokes an agent or spawns a child
\* process.
C7_NothingStartsAfterStop ==
  [][stopCount > 0 =>
       /\ Len(procs') = Len(procs)
       /\ \A r \in DOMAIN runs' : runs'[r].invoked = InvokedBefore(r)]_vars

\* C8: the step in which the approval of a call of executeWorkflow resolves
\* false sets the status to cancelled and returns a new result with status
\* cancelled; a call so rejected has invoked pm-agent only, and none of the
\* child processes is an engineer-agent or reviewer-agent of it.
C8_RejectionCancels ==
  [][/\ \A r \in DOMAIN runs :
          (runs[r].approved = "none" /\ runs'[r].approved = "no") =>
            /\ statusTrail' = <<"cancelled">>
            /\ currentStatus' = "cancelled"
            /\ currentResult'.status = "cancelled"
            /\ runs'[r].pc = "returned"
            /\ runs'[r].ret.kind = "fresh"
            /\ runs'[r].ret.value.status = "cancelled"
     /\ \A r \in DOMAIN runs' :
          runs'[r].approved = "no" =>
            /\ runs'[r].invoked = <<"pm-agent">>
            /\ \A p \in DOMAIN procs' :
                 procs'[p].run = r => procs'[p].agent = "pm-agent"]_vars

\* the approval of a call resolved false: the status is cancelled and the call
\* returned a result with status cancelled
C8_Witness ==
  \E r \in DOMAIN runs :
    /\ runs[r].approved = "no"
    /\ runs[r].pc = "returned"
    /\ runs[r].ret.value.status = "cancelled"
    /\ currentStatus = "cancelled"
    /\ statusTrail = <<"cancelled">>

\* no agent occurs twice in a sequence of invocations
EachAtMostOnce(invoked) ==
  \A i, j \in 1..Len(invoked) : invoked[i] = invoked[j] => i = j

NonzeroCodes == {JNum(1), JNull}

\* the invocation of process p, which nothing has resolved yet, fails in the
\* step: its child closes with a code other than 0, or could not be spawned
\* and emits 'error'
InvocationFails(p) ==
  /\ ~procs[p].settled
  /\ \/ /\ procs[p].state = "running"
        /\ \E code \in NonzeroCodes, launch \in Launches : ProcessClose(p, code, launch)
     \/ ProcessError(p)

\* the step calls resolve() on the pending promise of process p: the call
\* that awaits it resumes with the result in the step, or its resumption is
\* queued
Resolves(p) ==
  /\ ~procs[p].settled
  /\ ~Resolving(Here, p)
  /\ \/ \E k \in 1..Len(settledTrail') : settledTrail'[k].proc = p
     \/ \E j \in DOMAIN microtasks' :
          /\ microtasks'[j].kind = "settlement"
          /\ microtasks'[j].proc = p
          /\ microtasks'[j].promise.settle # "pending"

\* C9: a failed invocation at any stage moves the run to failed at once and
\* stops the pipeline.  When a child process closes with a code other than 0
\* or cannot be spawned, its invocation resolves with the failure, in the step
\* or as a promise job queued by it; the step in which a failure arrives at
\* the awaiting call of executeWorkflow ends with the status failed and the
\* call returned with a failed result, the failed invocation being the last
\* one of the call and no child process spawned; a call that returned invokes
\* nothing more; and no call invokes the same agent twice.
C9_FailureStopsPipeline ==
  [][/\ \A p \in DOMAIN procs : InvocationFails(p) => Resolves(p)
     /\ \A i \in 1..Len(settledTrail') :
          ~settledTrail'[i].result.success =>
            LET r == settledTrail'[i].run
            IN  /\ runs'[r].pc = "returned"
                /\ runs'[r].ret.statusAtReturn = "failed"
                /\ currentStatus' = "failed"
                /\ statusTrail'[Len(statusTrail')] = "failed"
                /\ runs'[r].invoked[Len(runs'[r].invoked)] = settledTrail'[i].agent
                /\ Len(procs') = Len(procs)
     /\ \A r \in DOMAIN runs :
          runs[r].pc = "returned" =>
            runs'[r].pc = "returned" /\ runs'[r].invoked = runs[r].invoked
     /\ \A r \in DOMAIN runs' : EachAtMostOnce(runs'[r].invoked)]_vars

\* String.prototype.includes
Includes(s, pat) == IndexOfFrom(s, pat, 1) # 0

\* C10: when a stage's child process closes with a code other than 0 and
\* stderr text X, its invocation not being resolved yet, the status becomes
\* failed and the failure reason stored in the result holds the invoker's
\* error detail whole, with the code and X.
C10_ReasonCarriesDetail ==
  [][\A p \in DOMAIN procs : \A code \in NonzeroCodes :
       (/\ procs[p].state = "running"
        /\ ~procs[p].settled
        /\ \E launch \in Launches : ProcessClose(p, code, launch)) =>
         /\ currentStatus' = "failed"
         /\ currentResult'.status = "failed"
         /\ currentResult'.error.t = "str"
         /\ Includes(currentResult'.error.v, ExitError(code, procs[p].stderr))]_vars

\* C11: at most one invocation of the runner is unresolved at a time (a second
\* invokeAgent made while one is unresolved is refused and spawns nothing).
C11_OneInvocationInFlight ==
  \A p, q \in DOMAIN procs :
    (~procs[p].settled /\ ~procs[q].settled) => p = q

\* C12: at most one child process spawned for the coordinator is alive at a
\* time.
C12_OneChildAlive ==
  \A p, q \in DOMAIN procs :
    (procs[p].state = "running" /\ procs[q].state = "running") => p = q

\* the output holds no parseable JSON: neither the interior of a fenced block,
\* nor the brace-balanced substring, nor the whole text parses
NoParseableJSON(output) ==
  /\ ~JSONParse(FenceMatch(output).inner).ok
  /\ ~JSONParse(BraceCandidate(output)).ok
  /\ ~JSONParse(output).ok

\* the status a run takes after the stage of the agent succeeded
StatusAfter(agentName) ==
  CASE agentName = "pm-agent" -> "awaiting_approval"
    [] agentName = "engineer-agent" -> "reviewing"
    [] OTHER -> "completed"

\* C13: when an invocation of any stage succeeds with an output that holds no
\* parseable JSON, the run goes on to the next status in that step and does
\* not fail.
C13_ParseFailureNotFatal ==
  [][\A i \in 1..Len(settledTrail') :
       (/\ settledTrail'[i].result.success
        /\ settledTrail'[i].result.output # <<>>
        /\ NoParseableJSON(settledTrail'[i].result.output)) =>
         /\ \E k \in 1..Len(statusTrail') :
              statusTrail'[k] = StatusAfter(settledTrail'[i].agent)
         /\ \A k \in 1..Len(statusTrail') : statusTrail'[k] # "failed"]_vars

\* the codes a child process can close with
CloseCodes == ExitCodes \cup {JNull, SpawnFailCode}

\* C19: when the timer of an invocation fires while its child process is
\* running, the process has been sent kill and the invocation resolves in that
\* step with success = false, the stdout captured so far, and the timeout
\* message with the configured value, which is neither the exit-failure nor
\* the spawn-failure message; and the close of a process whose invocation is
\* already resolved resolves nothing.
C19_TimeoutFailsInvocation ==
  [][\A p \in DOMAIN procs :
       /\ (procs[p].state = "running" /\ \E launch \in Launches : Timeout(p, launch)) =>
            /\ procs'[p].kills >= 1
            /\ \E i \in 1..Len(settledTrail') :
                 /\ settledTrail'[i].proc = p
                 /\ ~settledTrail'[i].result.success
                 /\ settledTrail'[i].result.output = procs[p].stdout
                 /\ settledTrail'[i].result.error = JStr(TimeoutError(DefaultTimeout))
                 /\ settledTrail'[i].result.error.v # SpawnError
                 /\ \A code \in CloseCodes :
                      settledTrail'[i].result.error.v # ExitError(code, procs[p].stderr)
       /\ (procs[p].settled /\ procs[p].state = "running"
           /\ \E code \in CloseCodes, launch \in Launches : ProcessClose(p, code, launch)) =>
            \A i \in 1..Len(settledTrail') : settledTrail'[i].proc # p]_vars

\* C20: the result of an invocation whose child process stop() killed is a
\* failure whose error is neither an exit-failure message nor the timeout
\* message.
C20_CancellationMarked ==
  [][\A i \in 1..Len(settledTrail') :
       (settledTrail'[i].proc # 0 /\ procs[settledTrail'[i].proc].stopped) =>
         /\ ~settledTrail'[i].result.success
         /\ settledTrail'[i].result.error # JStr(TimeoutError(DefaultTimeout))
         /\ \A code \in CloseCodes :
              settledTrail'[i].result.error #
                JStr(ExitError(code, procs[settledTrail'[i].proc].stderr))]_vars

(***************************************************************************)
(* Properties of the parse functions, under ExtractSpec.                   *)
(***************************************************************************)
\* C14: when the raw output holds a fenced json block whose interior is valid
\* JSON, with any prose before and after, the parse call returns exactly the
\* value of parsing that interior.
C14_FencedInteriorReturned ==
  (extracted.by # "none" /\ rawOutput.fenced /\ JSONParse(rawOutput.body).ok) =>
    /\ extracted.ok
    /\ extracted.v = JSONParse(rawOutput.body).v

\* the raw output is its body alone, with no fence
BodyAlone == ~rawOutput.fenced /\ rawOutput.pre = <<>> /\ rawOutput.post = <<>>

\* C15: when the raw output is a valid JSON text with no fence (an object whose
\* string values hold braces and a value that is not an object included), the
\* parse call returns the value of parsing the whole text.
C15_WholeTextReturned ==
  (extracted.by # "none" /\ BodyAlone /\ JSONParse(RawText(rawOutput)).ok) =>
    /\ extracted.ok
    /\ extracted.v = JSONParse(RawText(rawOutput)).v

\* the raw output is an unfenced JSON object followed by trailing text
ObjectThenProse ==
  /\ ~rawOutput.fenced
  /\ rawOutput.pre = <<>>
  /\ rawOutput.post # <<>>
  /\ JSONParse(rawOutput.body).ok
  /\ JSONParse(rawOutput.body).v.t = "obj"

\* C16: for an unfenced JSON object followed by trailing prose, the brace scan
\* of parsePMOutput selects exactly the object: it neither ends early at an
\* inner closing brace nor includes the trailing text.
C16_ScanIsolatesObject ==
  (extracted.by = "parsePMOutput" /\ ObjectThenProse) =>
    BraceCandidate(RawText(rawOutput)) = rawOutput.body

\* what trying the three strategies in order, the first success winning, gives:
\* the interior of the fenced block, else the brace-balanced substring, else
\* the whole text, else the placeholder
FirstSuccess(text) ==
  LET block == JSONParse(FenceMatch(text).inner)
      braces == JSONParse(BraceCandidate(text))
      whole == JSONParse(text)
  IN  IF block.ok THEN block.v
      ELSE IF braces.ok THEN braces.v
      ELSE IF whole.ok THEN whole.v
      ELSE PMPlaceholder(text)

\* C17: parsePMOutput returns what the first successful strategy parses, in
\* the order fenced block, brace-balanced substring, whole text, and the
\* placeholder only when all three fail.
C17_FirstSuccessWins ==
  extracted.by = "parsePMOutput" => extracted.v = FirstSuccess(RawText(rawOutput))

\* C18: for a plan output with no parseable JSON, parsePMOutput returns a
\* structurally complete placeholder (requirements, implementationPlan.tasks
\* with exactly one task, estimatedComplexity, risks, successCriteria and notes
\* present), whose task description is the first min(200, length) characters
\* of the raw output and whose notes are non-empty and flag the parse failure.
C18_PlaceholderComplete ==
  (extracted.by = "parsePMOutput" /\ NoParseableJSON(RawText(rawOutput))) =>
    LET text == RawText(rawOutput)
        plan == GetProp(extracted.v, Chars_implementationPlan)
        tasks == GetProp(plan, Chars_tasks)
        notes == GetProp(extracted.v, Chars_notes)
    IN  /\ GetProp(extracted.v, Chars_requirements).t = "arr"
        /\ plan.t = "obj"
        /\ tasks.t = "arr"
        /\ Len(tasks.v) = 1
        /\ GetProp(tasks.v[1], Chars_description) =
             JStr(SubSeq(text, 1, IF Len(text) < 200 THEN Len(text) ELSE 200))
        /\ GetProp(plan, Chars_estimatedComplexity).t = "num"
        /\ GetProp(plan, Chars_risks).t = "arr"
        /\ GetProp(extracted.v, Chars_successCriteria).t = "arr"
        /\ notes.t = "arr"
        /\ notes.v # <<>>
        /\ notes.v[1] = JStr(<<"<the agent did not answer in JSON>">>)

\* parsePMOutput has returned the placeholder for an output with no parseable
\* JSON that is longer than the echoed prefix
C18_Witness ==
  /\ extracted.by = "parsePMOutput"
  /\ NoParseableJSON(RawText(rawOutput))
  /\ Len(RawText(rawOutput)) > 200
  /\ Len(GetProp(GetProp(GetProp(extracted.v, Chars_implementationPlan), Chars_tasks).v[1],
                 Chars_description).v) = 200

(***************************************************************************)
(* Properties of the notifications, under Spec.                            *)
(***************************************************************************)
\* the runner's events of the step just taken that belong to a child process
ProcessEvents(types) ==
  {i \in 1..Len(eventTrail') :
     /\ eventTrail'[i].src = "runner"
     /\ eventTrail'[i].proc # 0
     /\ eventTrail'[i].type \in types}

\* C21: for each invocation exactly one terminal notification (complete or
\* error) is emitted, and it is the last notification of the invocation: the
\* step that settles the invocation emits one, and once the invocation is
\* settled no progress and no further complete or error is emitted for it.
C21_TerminalNotificationIsLast ==
  [][/\ \A i \in ProcessEvents({"progress", "complete", "error"}) :
          /\ ~procs[eventTrail'[i].proc].settled
          /\ ~Resolving(Here, eventTrail'[i].proc)
     /\ \A p \in DOMAIN procs :
          Resolves(p) =>
            Cardinality({i \in ProcessEvents({"complete", "error"}) :
                           eventTrail'[i].proc = p}) = 1]_vars

\* the agentEvents of type progress that the manager emitted in the step
ForwardedProgress ==
  {i \in 1..Len(eventTrail') :
     eventTrail'[i].src = "manager" /\ eventTrail'[i].type = "progress"}

\* C22: each stdout chunk of the child is delivered to the manager's observers
\* as one progress event whose text is that chunk, in the order produced, and
\* the chunks delivered add up to the output the invocation returns.
C22_ChunkDeliveredAsProgress ==
  [][\A p \in DOMAIN procs :
       (\E chunk \in OutChunks(procs[p].agent) : StdoutData(p, chunk)) =>
         /\ Cardinality(ForwardedProgress) = 1
         /\ \A i \in ForwardedProgress :
              /\ eventTrail'[i].payload.t = "str"
              /\ procs'[p].stdout = procs[p].stdout \o eventTrail'[i].payload.v]_vars

\* the i-th event of the step is the statusChange to the given status
IsStatusChange(i, status) ==
  /\ i \in 1..Len(eventTrail')
  /\ eventTrail'[i].type = "statusChange"
  /\ eventTrail'[i].payload = JStr(<<status>>)

\* the i-th event of the step is the start of the given agent
IsStart(i, agentName) ==
  /\ i \in 1..Len(eventTrail')
  /\ eventTrail'[i].src = "runner"
  /\ eventTrail'[i].type = "start"
  /\ eventTrail'[i].agent = agentName

\* the calls of the approval callback made in the step
ApprovalCalls == {i \in 1..Len(eventTrail') : eventTrail'[i].type = "approvalCallback"}

\* C23: the approval callback is called once at each entry into
\* awaiting_approval and nowhere else, at most once in a run, with the plan
\* parsed in that run; the engineer-agent is invoked only in the step in which
\* the callback's promise resolves.
C23_ApprovalCalledOnceAtGate ==
  [][/\ \A i \in 1..Len(eventTrail') :
          IsStatusChange(i, "awaiting_approval") => (i + 1) \in ApprovalCalls
     /\ \A i \in ApprovalCalls :
          LET r == eventTrail'[i].run
          IN  /\ IsStatusChange(i - 1, "awaiting_approval")
              /\ r \in DOMAIN runs
              /\ runs[r].pc = "pm"
              /\ runs'[r].pc = "approval"
              /\ \A j \in ApprovalCalls : eventTrail'[j].run = r => j = i
              /\ eventTrail'[i].payload = runs'[r].pmOutput
              /\ \E k \in 1..Len(settledTrail') :
                   /\ settledTrail'[k].run = r
                   /\ settledTrail'[k].agent = "pm-agent"
                   /\ eventTrail'[i].payload = parsePMOutput(settledTrail'[k].result.output)
              /\ \A j \in 1..Len(eventTrail') :
                   ~(IsStart(j, "engineer-agent") /\ eventTrail'[j].run = r)
     /\ \A r \in DOMAIN runs :
          /\ (runs[r].pc # "pm") => (runs'[r].pc # "pm")
          /\ (\E j \in 1..Len(eventTrail') :
                 IsStart(j, "engineer-agent") /\ eventTrail'[j].run = r) =>
               /\ runs[r].pc = "approval"
               /\ runs'[r].approved = "yes"]_vars

\* the approval callback has just been called with a parsed plan
C23_Witness ==
  \E i \in 1..Len(eventTrail) :
    /\ eventTrail[i].type = "approvalCallback"
    /\ eventTrail[i].payload = runs[eventTrail[i].run].pmOutput
    /\ runs[eventTrail[i].run].pc = "approval"

\* the stages of a run, in order
Stages == <<"pm-agent", "engineer-agent", "reviewer-agent">>

\* C24: within a run the invocations are pm-agent, engineer-agent,
\* reviewer-agent in this order with none skipped; the engineer prompt is built
\* from the plan parsed and stored earlier in the run, the reviewer prompt
\* from the implementation result parsed and stored in the run.
C24_StagesInOrder ==
  [][/\ \A r \in DOMAIN runs' :
          /\ Len(runs'[r].invoked) <= Len(Stages)
          /\ runs'[r].invoked = SubSeq(Stages, 1, Len(runs'[r].invoked))
     /\ \A i \in 1..Len(eventTrail') :
          LET r == eventTrail'[i].run
          IN  /\ IsStart(i, "engineer-agent") =>
                   /\ runs[r].pmOutput # Undefined
                   /\ runs[r].invoked = <<"pm-agent">>
                   /\ eventTrail'[i].payload = buildEngineerPrompt(runs[r].pmOutput)
              /\ IsStart(i, "reviewer-agent") =>
                   /\ runs[r].invoked = <<"pm-agent", "engineer-agent">>
                   /\ runs'[r].engineerOutput # Undefined
                   /\ currentResult'.engineerOutput = runs'[r].engineerOutput
                   /\ eventTrail'[i].payload = buildReviewerPrompt(runs'[r].engineerOutput)
                   /\ \E k \in 1..Len(settledTrail') :
                        /\ settledTrail'[k].run = r
                        /\ settledTrail'[k].agent = "engineer-agent"
                        /\ settledTrail'[k].result.success
                        /\ runs'[r].engineerOutput =
                             parseEngineerOutput(settledTrail'[k].result.output).v]_vars

\* a run has invoked all three agents
C24_Witness ==
  \E r \in DOMAIN runs :
    /\ runs[r].invoked = Stages
    /\ \E i \in 1..Len(eventTrail) :
         /\ eventTrail[i].type = "start"
         /\ eventTrail[i].agent = "reviewer-agent"
         /\ eventTrail[i].payload = buildReviewerPrompt(runs[r].engineerOutput)

\* C25: each entry into planning, implementing or reviewing is followed by
\* the invocation of that stage's agent before anything else happens: the
\* status is never entered and left without the agent having been invoked.
C25_StageEntryInvokesAgent ==
  [][\A i \in 1..Len(eventTrail') :
       /\ IsStatusChange(i, "planning") => IsStart(i + 1, "pm-agent")
       /\ IsStatusChange(i, "implementing") => IsStart(i + 1, "engineer-agent")
       /\ IsStatusChange(i, "reviewing") => IsStart(i + 1, "reviewer-agent")]_vars

\* C26: whenever a stage's invocation succeeds (exit status 0 before the
\* timeout), whatever its stdout holds and also when it is empty, the manager
\* advances to the next status and does not fail.
C26_SuccessAdvances ==
  [][\A k \in 1..Len(settledTrail') :
       settledTrail'[k].result.success =>
         /\ \E j \in 1..Len(statusTrail') :
              statusTrail'[j] = StatusAfter(settledTrail'[k].agent)
         /\ \A j \in 1..Len(statusTrail') : statusTrail'[j] # "failed"]_vars

\* the AgentResult a close with the given code yields for process p
CloseResult(p, code) ==
  IF code = JNum(0)
  THEN [success |-> TRUE, output |-> procs[p].stdout, error |-> Undefined]
  ELSE [success |-> FALSE, output |-> procs[p].stdout,
        error |-> JStr(ExitError(code, procs[p].stderr))]

\* C27: an invocation that nothing has resolved yet resolves at the close of
\* its child: with success and the concatenated stdout when the code is 0,
\* with a failure whose error holds the code and the stderr otherwise; and a
\* result has success = true only if it comes from a close with code 0.
C27_ResultFollowsExitCode ==
  [][/\ \A p \in DOMAIN procs : \A code \in CloseCodes :
          (/\ procs[p].state = "running"
           /\ ~procs[p].settled
           /\ \E launch \in Launches : ProcessClose(p, code, launch)) =>
            \E k \in 1..Len(settledTrail') :
              /\ settledTrail'[k].proc = p
              /\ settledTrail'[k].result = CloseResult(p, code)
     /\ \A k \in 1..Len(settledTrail') :
          settledTrail'[k].result.success =>
            /\ settledTrail'[k].proc # 0
            /\ settledTrail'[k].result = CloseResult(settledTrail'[k].proc, JNum(0))
            /\ \E launch \in Launches :
                 ProcessClose(settledTrail'[k].proc, JNum(0), launch)]_vars

\* the step sends no signal, settles nothing, emits nothing from the runner
\* and leaves the runner's handle as it was
RunnerUntouched ==
  /\ procs' = procs
  /\ currentProcess' = currentProcess
  /\ settledTrail' = <<>>
  /\ \A i \in 1..Len(eventTrail') : eventTrail'[i].src # "runner"

\* C28: ClaudeCodeRunner.stop() with no process running is a no-op: it sends
\* no signal, emits no notification and leaves the runner unchanged, and
\* calling it again has the same effect as calling it once.
C28_StopWithoutProcessIsNoOp ==
  [][/\ (currentProcess = 0 /\ stop) => RunnerUntouched
     /\ (currentProcess = 0 /\ dispose) => RunnerUntouched
     /\ (currentProcess = 0) => (RunnerStop(Here) = Here)
     /\ RunnerStop(RunnerStop(Here)) = RunnerStop(Here)]_vars

\* stop() has just been called on a manager whose child had closed: no signal
\* was sent and the one event of the step is the manager's statusChange
C28_Witness ==
  /\ stopCount = 1
  /\ procs # <<>>
  /\ \A p \in DOMAIN procs : procs[p].state = "closed" /\ procs[p].kills = 0
  /\ currentProcess = 0
  /\ eventTrail = <<StatusChange("cancelled", currentResult)>>

\* C29: no stage's result field is populated before its status has been
\* entered in the current run: engineerOutput only after Implementing was
\* entered, reviewerOutput only after Reviewing was entered, and
\* reviewerOutput implies engineerOutput implies pmOutput.
C29_ResultFieldsFollowStatus ==
  /\ (runs = <<>>) =>
       /\ currentResult.pmOutput.t = "undefined"
       /\ currentResult.engineerOutput.t = "undefined"
       /\ currentResult.reviewerOutput.t = "undefined"
  /\ (runs # <<>>) =>
       /\ (currentResult.engineerOutput.t # "undefined") =>
            runs[Len(runs)].approved = "yes"
       /\ (currentResult.reviewerOutput.t # "undefined") =>
            "reviewer-agent" \in {runs[Len(runs)].invoked[i] :
                                    i \in 1..Len(runs[Len(runs)].invoked)}
  /\ (currentResult.reviewerOutput.t # "undefined") =>
       (currentResult.engineerOutput.t # "undefined")
  /\ (currentResult.engineerOutput.t # "undefined") =>
       (currentResult.pmOutput.t # "undefined")

\* the statuses carried by the statusChange events of the step, in order
EmittedStatuses ==
  LET changes == SelectSeq(eventTrail', LAMBDA e : e.type = "statusChange")
  IN  [i \in 1..Len(changes) |-> changes[i].payload]

\* C30: every assignment of the status is followed by one statusChange event
\* carrying the new status: the statuses emitted in a step are the statuses
\* the manager went through in that step, in order, ending in its status.
C30_EveryTransitionEmitted ==
  [][/\ EmittedStatuses = [i \in 1..Len(statusTrail') |-> JStr(<<statusTrail'[i]>>)]
     /\ (statusTrail' = <<>>) => (currentStatus' = currentStatus)
     /\ (statusTrail' # <<>>) =>
          /\ currentStatus' = statusTrail'[Len(statusTrail')]
          /\ currentResult'.status = currentStatus']_vars

\* one step has just taken the manager through two statuses, both emitted
C30_Witness ==
  /\ statusTrail = <<"reviewing", "failed">>
  /\ Len(SelectSeq(eventTrail, LAMBDA e : e.type = "statusChange")) = 2
  /\ currentStatus = "failed"


\* the result a stage's extraction yields for the output of its agent
StageResult(agentName, output) ==
  IF agentName = "pm-agent" THEN parsePMOutput(output)
  ELSE IF agentName = "engineer-agent" THEN parseEngineerOutput(output).v
  ELSE parseReviewerOutput(output).v

\* the events of the step, other than status changes and forwarded agent
\* events, by which the manager hands the given value to its observers
ResultNotifications(result) ==
  {i \in 1..Len(eventTrail') :
     /\ eventTrail'[i].src = "manager"
     /\ eventTrail'[i].type \notin {"statusChange", "start", "progress", "complete", "error"}
     /\ eventTrail'[i].payload = result}

\* C31: after each stage's extraction (plan, implement, review) the manager
\* emits one result-available notification carrying the parsed result of the
\* stage, be it clean or the placeholder.
C31_ResultAvailableEmitted ==
  [][\A k \in 1..Len(settledTrail') :
       (settledTrail'[k].result.success /\ settledTrail'[k].result.output # <<>>) =>
         Cardinality(ResultNotifications(
           StageResult(settledTrail'[k].agent, settledTrail'[k].result.output))) = 1]_vars

(***************************************************************************)
(* Cancellation and the timer.  A timer set with setTimeout fires once its *)
(* delay has passed whatever else happens, so the Timeout step of every    *)
(* invocation is weakly fair.  Nothing obliges a child process to exit: a  *)
(* child may ignore the signal kill() sends, so ProcessClose is not fair.  *)
(* The nextTick callbacks and the jobs queued run once the client's code   *)
(* has returned, so ProcessError and MicrotaskCheckpoint are weakly fair.  *)
(***************************************************************************)
\* the timer of the invocation of process p fires
TimerFires(p) ==
  /\ p \in DOMAIN procs
  /\ \E launch \in LaunchesAfter(p) : Timeout(p, launch)

TimerSpec ==
  /\ Init
  /\ [][Next]_vars
  /\ \A p \in 1..MaxProcs : WF_vars(TimerFires(p))
  /\ WF_vars(\E p \in DOMAIN procs : ProcessError(p))
  /\ WF_vars(MicrotaskCheckpoint)

\* C32: after stop() was called while a child process was running, the
\* pending promise of invokeAgent is eventually resolved, also when the child
\* does not exit on the signal: the timeout still bounds the invocation.
C32_StoppedInvocationSettles ==
  \A p \in 1..MaxProcs :
    (p \in DOMAIN procs /\ procs[p].stopped /\ procs[p].state = "running")
      ~> (p \in DOMAIN procs /\ procs[p].settled)

\* the step is one of the handlers of the invocation of process p: its close
\* handler, its error handler or its timer
HandlerOf(p) ==
  \E launch \in LaunchesAfter(p) :
    \/ \E code \in ExitCodes \cup {JNull, SpawnFailCode} : ProcessClose(p, code, launch)
    \/ ProcessError(p)
    \/ Timeout(p, launch)

\* C33: the handlers of an earlier invocation (close, error, timer) never
\* clear the handle of a later invocation on the same runner and never kill
\* its child process.
C33_HandlersKeepToOwnInvocation ==
  [][\A p \in DOMAIN procs :
       (HandlerOf(p) /\ currentProcess \notin {0, p}) =>
         /\ currentProcess' # 0
         /\ procs'[currentProcess].kills = procs[currentProcess].kills]_vars

\* the step is one in which invokeAgent, if called, finds no definition file
MissingFileStep ==
  \/ executeWorkflow("nofile")
  \/ /\ MicrotaskCheckpoint
     /\ \A j \in DOMAIN microtasks :
          microtasks[j].kind = "decision" => microtasks[j].launch = "nofile"
  \/ \E p \in DOMAIN procs :
       /\ "nofile" \in LaunchesAfter(p)
       /\ \/ \E code \in ExitCodes \cup {JNull, SpawnFailCode} : ProcessClose(p, code, "nofile")
          \/ Timeout(p, "nofile")

\* the result invokeAgent resolves with when the definition file is missing
MissingFileResult(agentName) ==
  [success |-> FALSE, output |-> <<>>, error |-> JStr(MissingAgentError(agentName))]

\* in the step the promise of call r's invocation of the agent resolved with
\* the result: the call resumed with it, or its resumption is queued
ResolvedWith(r, agentName, result) ==
  \/ \E k \in 1..Len(settledTrail') :
       /\ settledTrail'[k].proc = 0
       /\ settledTrail'[k].run = r
       /\ settledTrail'[k].agent = agentName
       /\ settledTrail'[k].result = result
  \/ \E j \in DOMAIN microtasks' :
       /\ microtasks'[j].kind = "settlement"
       /\ microtasks'[j].run = r
       /\ microtasks'[j].agent = agentName
       /\ microtasks'[j].promise = Resolved(result)

\* the runner's events of the step, in the order emitted
RunnerEvents == SelectSeq(eventTrail', LAMBDA e : e.src = "runner")

\* C34: when the definition file of the requested agent does not exist,
\* invokeAgent emits start and then error, resolves with success = false and
\* empty output, spawns no process, starts no timer and does not assign the
\* handle.
C34_MissingFileResolvesWithoutSpawn ==
  [][MissingFileStep =>
       /\ Len(procs') = Len(procs)
       /\ \A p \in DOMAIN procs : procs'[p].timerPending => procs[p].timerPending
       /\ currentProcess' \in {currentProcess, 0}
       /\ (currentProcess' # currentProcess) => \E p \in DOMAIN procs : HandlerOf(p)
       /\ \A i \in 1..Len(RunnerEvents) :
            RunnerEvents[i].type = "start" =>
              /\ i < Len(RunnerEvents)
              /\ RunnerEvents[i + 1].type = "error"
              /\ RunnerEvents[i + 1].agent = RunnerEvents[i].agent
              /\ RunnerEvents[i + 1].payload.v = MissingAgentError(RunnerEvents[i].agent)
              /\ ResolvedWith(RunnerEvents[i].run, RunnerEvents[i].agent,
                              MissingFileResult(RunnerEvents[i].agent))]_vars

\* C35: when the observers are notified of the status failed, the result that
\* getResult() shows them has the status failed and a failure reason; and in
\* every state in which the status is failed the error of the current result
\* is present.
C35_FailedResultHasReason ==
  /\ [][\A i \in 1..Len(eventTrail') :
          IsStatusChange(i, "failed") =>
            /\ eventTrail'[i].result.status = "failed"
            /\ eventTrail'[i].result.error # Undefined]_vars
  /\ [](currentStatus = "failed" => currentResult.error # Undefined)

\* the calls of executeWorkflow that return in the step
Returning == {r \in DOMAIN runs' : runs'[r].pc = "returned" /\ (r \in DOMAIN runs => runs[r].pc # "returned")}

\* C36: when a call of executeWorkflow returns, the status of the result it
\* returns is the manager's status and the status of the current result at
\* that moment, whatever the stage outcomes, approval decisions and calls of
\* stop() before it.
C36_ReturnedStatusIsCurrent ==
  [][\A r \in Returning :
       /\ runs'[r].ret.kind \in {"fresh", "alias"}
       /\ (runs'[r].ret.kind = "fresh") =>
            (runs'[r].ret.statusAtReturn = runs'[r].ret.value.status)
       /\ runs'[r].ret.statusAtReturn = currentStatus'
       /\ runs'[r].ret.statusAtReturn = currentResult'.status]_vars

\* a call of executeWorkflow has just returned failed although stop() was
\* called while its pm-agent ran and had set the status to cancelled
C36_Witness ==
  \E r \in DOMAIN runs :
    /\ runs[r].pc = "returned"
    /\ runs[r].stoppedPlanning
    /\ stopCount > 0
    /\ statusTrail = <<"failed">>
    /\ runs[r].ret.statusAtReturn = "failed"
    /\ currentStatus = "failed"

\* the calls of executeWorkflow that, in the step, end failed or cancelled
\* after their plan was parsed: cancelled at the approval gate, or failed in
\* the implementing or the reviewing stage
EndingAfterPlan ==
  {r \in Returning \cap DOMAIN runs :
     /\ runs[r].pc \in {"approval", "engineer", "reviewer"}
     /\ runs'[r].ret.statusAtReturn \in {"failed", "cancelled"}}

\* C37: a failure in the implementing or reviewing stage, or a cancellation
\* at the approval gate, leaves the results of the earlier stages in the
\* current result as they were, and the result executeWorkflow returns
\* includes them: pmOutput always, engineerOutput once it was parsed.
C37_EarlierResultsKept ==
  [][\A r \in EndingAfterPlan :
       /\ currentResult.pmOutput # Undefined
       /\ currentResult'.pmOutput = currentResult.pmOutput
       /\ (runs[r].pc = "reviewer") =>
            /\ currentResult.engineerOutput # Undefined
            /\ currentResult'.engineerOutput = currentResult.engineerOutput
       /\ (runs[r].pc = "engineer" /\ runs'[r].engineerOutput # Undefined) =>
            currentResult'.engineerOutput = runs'[r].engineerOutput
       /\ (runs[r].pc = "approval" \/ runs'[r].engineerOutput = Undefined) =>
            currentResult'.engineerOutput = currentResult.engineerOutput
       /\ (runs'[r].ret.kind = "fresh") =>
            /\ runs'[r].ret.value.status = "cancelled"
            /\ runs'[r].ret.value.pmOutput = runs[r].pmOutput
            /\ runs[r].pmOutput # Undefined
       /\ (runs'[r].ret.statusAtReturn = "failed") => (runs'[r].ret.kind = "alias")]_vars

\* a call of executeWorkflow has just failed in the reviewing stage, and the
\* current result, which it returned, holds its plan and its implementation
C37_Witness ==
  \E r \in DOMAIN runs :
    /\ runs[r].pc = "returned"
    /\ runs[r].invoked = Stages
    /\ runs[r].ret.kind = "alias"
    /\ statusTrail # <<>>
    /\ statusTrail[Len(statusTrail)] = "failed"
    /\ currentResult.status = "failed"
    /\ currentResult.pmOutput = runs[r].pmOutput
    /\ currentResult.pmOutput # Undefined
    /\ currentResult.engineerOutput = runs[r].engineerOutput
    /\ currentResult.engineerOutput # Undefined

(***************************************************************************)
(* WorkflowPanel: the handlers of the messages of the webview, with the    *)
(* WorkflowManager objects the panel creates.  The panel calls             *)
(* executeWorkflow once on each manager; pc is where that call waits.  A   *)
(* handler runs up to the first await of the executeWorkflow it calls or   *)
(* resumes by resolving a promise; the rest runs in the promise jobs, once *)
(* the handler and what else runs with it (the stop command calls          *)
(* stopWorkflow() directly) have returned to the event loop.  A child that *)
(* exits with code 0 is taken to have written an answer that parses, the   *)
(* timer of an invocation is taken not to fire, and of the panel's fields  *)
(* the log history, which no handler reads, is left out.  The 'error'      *)
(* event of a child that could not be spawned is emitted from a nextTick   *)
(* callback, as for the runner above.                                      *)
(***************************************************************************)
MaxManagers == 3

\* how a stage's agent is launched: spawned, its definition file is missing,
\* or the spawn fails
PanelLaunches == {"ok", "nofile", "spawnfail"}

\* the exit codes of a child: 0, or 1 for any other code or a signal
PanelExitCodes == {0, 1}

\* new WorkflowManager({projectRoot}) with the two listeners the panel puts on
\* it: currentProcess says whether the runner holds a handle, child whether a
\* spawned child has not closed yet (running, or killed once kill() was sent;
\* spawnfail until the 'error' event of a failed spawn is emitted, errored
\* after it), listeners whether dispose() has not removed the listeners
NewManager ==
  [currentStatus |-> "idle", pc |-> "created", currentProcess |-> FALSE,
   child |-> "none", listeners |-> TRUE]

\* the panel and its managers as one record
PanelHere ==
  [managers |-> managers, workflowManager |-> _workflowManager,
   approvalResolver |-> _approvalResolver, currentStatus |-> _currentStatus,
   microtasks |-> microtasks, checkpoint |-> checkpoint]

\* the managers whose child could not be spawned and whose 'error' event is
\* still to be emitted: the nextTick callbacks queued.  They run before the
\* jobs that a handler queued and after the jobs that a job queued, so that
\* those queued together come from handlers and are in the order of the
\* managers
PanelTicks(ms) == {m \in DOMAIN ms : ms[m].child = "spawnfail"}

\* what runs next once a promise job has returned
PanelAfterJob(P) ==
  [P EXCEPT !.checkpoint = IF P.microtasks # <<>> THEN "jobs"
                           ELSE IF PanelTicks(P.managers) # {} THEN "ticks" ELSE "no"]

PanelBecomes(after) ==
  \E P \in {after} :
    /\ managers' = P.managers
    /\ _workflowManager' = P.workflowManager
    /\ _approvalResolver' = P.approvalResolver
    /\ _currentStatus' = P.currentStatus
    /\ microtasks' = P.microtasks
    /\ checkpoint' = P.checkpoint
    /\ UNCHANGED <<currentStatus, currentResult, runnerListeners, currentProcess, procs,
                   runs, stopCount, statusTrail, settledTrail, eventTrail, rawOutput,
                   extracted, analysisVars>>

\* a queued job of the panel: the continuation of the executeWorkflow of
\* manager m, jobs away, after an invocation that failed before its child
\* ran or after the decision the approval promise was resolved with; or the
\* job that adopts the promise of an invocation, pending until the 'error'
\* listener of its child calls resolve()
FailureOf(m) ==
  [manager |-> m, kind |-> "settlement", approved |-> FALSE, launch |-> "nofile",
   jobs |-> InvokeJobs]
AdoptionOf(m) ==
  [manager |-> m, kind |-> "adoption", approved |-> FALSE, launch |-> "nofile",
   jobs |-> InvokeJobs]
DecisionOf(m, approved, launch) ==
  [manager |-> m, kind |-> "decision", approved |-> approved, launch |-> launch,
   jobs |-> ApprovalJobs]

\* updateStatus(status) of manager m: the panel's 'statusChange' listener
\* assigns the panel's _currentStatus, whichever manager is the current one
ManagerUpdateStatus(P, m, status) ==
  LET P1 == [P EXCEPT !.managers[m].currentStatus = status]
  IN  IF P.managers[m].listeners THEN [P1 EXCEPT !.currentStatus = status] ELSE P1

\* handleError of manager m, whose result executeWorkflow returns
ManagerHandleError(P, m) ==
  [ManagerUpdateStatus(P, m, "failed") EXCEPT !.managers[m].pc = "returned"]

\* invokeAgent for a stage of manager m, up to the await on it: when the
\* definition file is missing the promise resolves with a failure or, without
\* listeners, is rejected, and executeWorkflow resumes in a later job; a
\* spawn that fails returns a child all the same
ManagerInvokeAgent(P, m, stage, launch) ==
  CASE launch = "nofile" ->
         [P EXCEPT !.managers[m].pc = stage, !.microtasks = Append(@, FailureOf(m))]
    [] launch = "spawnfail" ->
         [P EXCEPT !.managers[m].pc = stage, !.managers[m].child = "spawnfail",
                   !.managers[m].currentProcess = TRUE,
                   !.microtasks = Append(@, AdoptionOf(m))]
    [] OTHER ->
         [P EXCEPT !.managers[m].pc = stage, !.managers[m].child = "running",
                   !.managers[m].currentProcess = TRUE]

\* executeWorkflow of manager m once its approval promise has resolved
ManagerAfterApproval(P, m, approved, launch) ==
  IF ~approved
  THEN [ManagerUpdateStatus(P, m, "cancelled") EXCEPT !.managers[m].pc = "returned"]
  ELSE ManagerInvokeAgent(ManagerUpdateStatus(P, m, "implementing"), m, "engineer", launch)

\* executeWorkflow of manager m once the invocation it awaits has succeeded;
\* after the pm-agent it calls the panel's approval callback, which stores
\* the resolve function of a new promise in _approvalResolver
ManagerAfterSuccess(P, m, launch) ==
  CASE P.managers[m].pc = "pm" ->
         [ManagerUpdateStatus(P, m, "awaiting_approval")
            EXCEPT !.managers[m].pc = "approval", !.approvalResolver = m]
    [] P.managers[m].pc = "engineer" ->
         ManagerInvokeAgent(ManagerUpdateStatus(P, m, "reviewing"), m, "reviewer", launch)
    [] OTHER ->
         [ManagerUpdateStatus(P, m, "completed") EXCEPT !.managers[m].pc = "returned"]

\* the last job of a queued continuation: the executeWorkflow of the manager
\* resumes, after a failed invocation in handleError
PanelRunMicrotask(P, t) ==
  IF t.kind = "decision" THEN ManagerAfterApproval(P, t.manager, t.approved, t.launch)
  ELSE ManagerHandleError(P, t.manager)

\* the queued jobs run oldest first, up to and with the first that resumes a
\* call of executeWorkflow; the job that adopts a promise still pending
\* queues nothing
RECURSIVE PanelRunJobs(_)
PanelRunJobs(P) ==
  IF P.microtasks = <<>> THEN P
  ELSE Call(Head(P.microtasks), LAMBDA t :
         Call([P EXCEPT !.microtasks = Tail(@)], LAMBDA P1 :
           IF t.kind = "adoption" THEN PanelRunJobs(P1)
           ELSE IF t.jobs > 1
           THEN PanelRunJobs([P1 EXCEPT !.microtasks = Append(@, [t EXCEPT !.jobs = @ - 1])])
           ELSE PanelRunMicrotask(P1, t)))

\* the microtask checkpoint after a callback of the event loop
RECURSIVE PanelRunMicrotasks(_)
PanelRunMicrotasks(P) ==
  IF P.microtasks = <<>> THEN P ELSE Call(PanelRunJobs(P), PanelRunMicrotasks)

\* the close handler of the child of manager m with the part of
\* executeWorkflow that its resolve() resumes; with a code other than 0 and
\* no listeners emit('error') throws and the invocation never resolves.  For
\* a child that could not be spawned the 'error' listener has called
\* resolve() before, and the call made here does nothing
ManagerOnClose(P, m, code, launch) ==
  LET P1 == [P EXCEPT !.managers[m].child = "none", !.managers[m].currentProcess = FALSE]
  IN  IF P.managers[m].child = "errored" THEN P1
      ELSE IF code = 0 THEN ManagerAfterSuccess(P1, m, launch)
      ELSE IF P.managers[m].listeners THEN ManagerHandleError(P1, m)
      ELSE P1

\* the 'error' listener of the child of manager m, which could not be
\* spawned: without listeners emit('error') throws and the invocation never
\* resolves; else the job that adopts the promise, if it has yet to run,
\* finds it resolved
ManagerOnError(P, m) ==
  LET P1 == [P EXCEPT !.managers[m].child = "errored", !.managers[m].currentProcess = FALSE]
      adopting == {j \in DOMAIN P.microtasks :
                     P.microtasks[j].kind = "adoption" /\ P.microtasks[j].manager = m}
  IN  IF ~P.managers[m].listeners THEN P1
      ELSE IF adopting # {}
      THEN [P1 EXCEPT !.microtasks = [j \in DOMAIN P.microtasks |->
                                       IF j \in adopting THEN FailureOf(m)
                                       ELSE P.microtasks[j]]]
      ELSE [P1 EXCEPT !.microtasks = Append(@, [FailureOf(m) EXCEPT !.jobs = InvokeJobs - 1])]

\* message startWorkflow: _handleStartWorkflow(task), up to the return of the
\* promise of executeWorkflow
_handleStartWorkflow(hasWorkspace, launch) ==
  /\ checkpoint = "no"
  /\ Len(managers) < MaxManagers
  /\ IF ~hasWorkspace THEN PanelBecomes(PanelHere)
     ELSE LET m == Len(managers) + 1
              P0 == [PanelHere EXCEPT !.currentStatus = "idle",
                                      !.managers = Append(@, NewManager),
                                      !.workflowManager = m]
          IN  PanelBecomes(ManagerInvokeAgent(ManagerUpdateStatus(P0, m, "planning"),
                                              m, "pm", launch))

\* message approvePlan: _handleApprovePlan(approved), which calls the stored
\* resolve and clears the field; launch is how the engineer-agent will launch
\* if it is invoked
_handleApprovePlan(approved, launch) ==
  /\ checkpoint = "no"
  /\ IF _approvalResolver = 0 THEN PanelBecomes(PanelHere)
     ELSE PanelBecomes([PanelHere EXCEPT
            !.approvalResolver = 0,
            !.microtasks = Append(@, DecisionOf(_approvalResolver, approved, launch))])

\* what the pid of the child of manager m may read in a call of kill(): for a
\* child that could not be spawned the field was never assigned
ManagerPidReads(m) ==
  IF managers[m].currentProcess /\ managers[m].child = "spawnfail"
  THEN BOOLEAN ELSE {FALSE}

\* message stopWorkflow or command claudeWorkflow.stop: stopWorkflow(), that
\* is stop() and dispose() of the current manager.  kill() of a child that
\* could not be spawned terminates the host when the pid reads 0, and else
\* fails and returns
stopWorkflow ==
  /\ checkpoint = "no"
  /\ IF _workflowManager = 0 THEN PanelBecomes(PanelHere)
     ELSE \E zero \in ManagerPidReads(_workflowManager) :
       LET m == _workflowManager
           P1 == IF managers[m].currentProcess
                 THEN [PanelHere EXCEPT !.managers[m].child =
                                          IF @ = "spawnfail" THEN @ ELSE "killed",
                                        !.managers[m].currentProcess = FALSE]
                 ELSE PanelHere
           P2 == ManagerUpdateStatus(P1, m, "cancelled")
       IN  IF zero THEN PanelBecomes([PanelHere EXCEPT !.checkpoint = "exited"])
           ELSE PanelBecomes([P2 EXCEPT !.managers[m].listeners = FALSE,
                                        !.workflowManager = 0])

\* the handlers have returned to the event loop with jobs queued: they run
\* once the nextTick callbacks have run and before any event is delivered,
\* and each step ends with a call of executeWorkflow resumed, or with the
\* queue empty
PanelCheckpoint ==
  /\ microtasks # <<>>
  /\ checkpoint = "jobs" \/ (checkpoint = "no" /\ PanelTicks(managers) = {})
  /\ PanelBecomes(PanelAfterJob(PanelRunJobs(PanelHere)))

\* 'error' of the child of manager m, which could not be spawned: the
\* nextTick callback
PanelError(m) ==
  /\ checkpoint \in {"no", "ticks"}
  /\ m \in PanelTicks(managers)
  /\ \A n \in PanelTicks(managers) : m <= n
  /\ \E P \in {ManagerOnError(PanelHere, m)} :
       PanelBecomes([P EXCEPT !.checkpoint = IF PanelTicks(P.managers) # {} THEN "ticks"
                                             ELSE IF P.microtasks # <<>> THEN "jobs"
                                             ELSE "no"])

\* 'close' of the child of manager m.  After a failed spawn 'close' follows
\* only when the emission of 'error' has returned, that is when the listener
\* did not throw and the call of executeWorkflow it resumed has returned
ChildClose(m, code, launch) ==
  /\ checkpoint = "no"
  /\ microtasks = <<>>
  /\ PanelTicks(managers) = {}
  /\ \/ managers[m].child \in {"running", "killed"}
     \/ managers[m].child = "errored" /\ managers[m].pc = "returned" /\ code # 0
  /\ PanelBecomes(PanelAfterJob(PanelRunMicrotasks(ManagerOnClose(PanelHere, m, code, launch))))

PanelNext ==
  \/ \E hasWorkspace \in BOOLEAN, launch \in PanelLaunches :
       _handleStartWorkflow(hasWorkspace, launch)
  \/ \E approved \in BOOLEAN, launch \in PanelLaunches : _handleApprovePlan(approved, launch)
  \/ stopWorkflow
  \/ \E m \in DOMAIN managers, code \in PanelExitCodes, launch \in PanelLaunches :
       ChildClose(m, code, launch)
  \/ \E m \in DOMAIN managers : PanelError(m)
  \/ PanelCheckpoint

PanelSpec == Init /\ [][PanelNext]_vars

\* the managers whose workflow is active: a child process that has not been
\* sent a signal is alive, or the approval of the plan is pending
ActiveManagers ==
  {m \in DOMAIN managers : managers[m].child = "running" \/ managers[m].pc = "approval"}

\* C38: a startWorkflow message received while a workflow is running does not
\* lead to two active workflows: at most one manager of the panel has a live
\* child process or a pending approval.
C38_OneWorkflowActive == Cardinality(ActiveManagers) <= 1

\* a decision is queued for the executeWorkflow of manager m
DecisionQueued(queue, m) ==
  \E j \in DOMAIN queue : queue[j].kind = "decision" /\ queue[j].manager = m

\* the managers whose approval promise the step resolves
ApprovalsSettled ==
  {m \in DOMAIN managers : DecisionQueued(microtasks', m) /\ ~DecisionQueued(microtasks, m)}

\* C39: an approvePlan message settles at most one pending approval, and
\* always that of a run whose plan awaits the decision (its status is
\* awaiting_approval); when no approval is pending it has no effect; and no
\* run waits for ever because its resolver was overwritten or dropped: every
\* pending approval is the one the stored resolver settles.
C39_ApprovalReachesItsRun ==
  /\ [][\A approved \in BOOLEAN, launch \in PanelLaunches :
          _handleApprovePlan(approved, launch) =>
            /\ Cardinality(ApprovalsSettled) <= 1
            /\ \A m \in ApprovalsSettled : managers[m].currentStatus = "awaiting_approval"
            /\ (\A m \in DOMAIN managers : managers[m].pc # "approval") =>
                 UNCHANGED <<panelVars, microtasks>>]_vars
  /\ [](\A m \in DOMAIN managers :
         managers[m].pc = "approval" =>
           _approvalResolver = m \/ DecisionQueued(microtasks, m))

(***************************************************************************)
(* analyzeCodeStructure (examples/hello-world.ts), applied to a list of    *)
(* generated files.  A path is a sequence of characters.  An object        *)
(* literal {} used as a map is the sequence of its own entries, the array  *)
(* indexes first and the other keys in the order of insertion, on top of   *)
(* the properties every object inherits.                                   *)
(***************************************************************************)
MaxFiles == 3

\* path.split('/'): the parts between the separators, empty parts included
Split(s, sep) ==
  LET seps == {i \in 1..Len(s) : s[i] = sep}
      n == Cardinality(seps) + 1
      At(k) == IF k = 0 THEN 0
               ELSE IF k = n THEN Len(s) + 1
               ELSE CHOOSE i \in seps : Cardinality({j \in seps : j <= i}) = k
  IN  [k \in 1..n |-> SubSeq(s, At(k - 1) + 1, At(k) - 1)]

Chars_src == <<"s", "r", "c">>
Chars_root == <<"r", "o", "o", "t">>
Chars_constructor == <<"c", "o", "n", "s", "t", "r", "u", "c", "t", "o", "r">>
Chars_toString == <<"t", "o", "S", "t", "r", "i", "n", "g">>
Chars_valueOf == <<"v", "a", "l", "u", "e", "O", "f">>
Chars___proto__ == <<"_", "_", "p", "r", "o", "t", "o", "_", "_">>
Chars_hasOwnProperty ==
  <<"h", "a", "s", "O", "w", "n", "P", "r", "o", "p", "e", "r", "t", "y">>
Chars___defineGetter__ ==
  <<"_", "_", "d", "e", "f", "i", "n", "e", "G", "e", "t", "t", "e", "r", "_", "_">>
Chars___defineSetter__ ==
  <<"_", "_", "d", "e", "f", "i", "n", "e", "S", "e", "t", "t", "e", "r", "_", "_">>
Chars___lookupGetter__ ==
  <<"_", "_", "l", "o", "o", "k", "u", "p", "G", "e", "t", "t", "e", "r", "_", "_">>
Chars___lookupSetter__ ==
  <<"_", "_", "l", "o", "o", "k", "u", "p", "S", "e", "t", "t", "e", "r", "_", "_">>
Chars_isPrototypeOf ==
  <<"i", "s", "P", "r", "o", "t", "o", "t", "y", "p", "e", "O", "f">>
Chars_propertyIsEnumerable ==
  <<"p", "r", "o", "p", "e", "r", "t", "y", "I", "s", "E", "n", "u", "m", "e", "r", "a",
  "b", "l", "e">>
Chars_toLocaleString ==
  <<"t", "o", "L", "o", "c", "a", "l", "e", "S", "t", "r", "i", "n", "g">>

\* the names of the properties an object literal inherits from
\* Object.prototype; the value of each is a function or an object, so it is
\* truthy and has no push
ObjectPrototypeNames ==
  {Chars___defineGetter__, Chars___defineSetter__, Chars___lookupGetter__,
   Chars___lookupSetter__, Chars___proto__, Chars_constructor, Chars_hasOwnProperty,
   Chars_isPrototypeOf, Chars_propertyIsEnumerable, Chars_toLocaleString,
   Chars_toString, Chars_valueOf}

\* getCategoryFromPath(path)
getCategoryFromPath(path) ==
  LET parts == Split(path, "/")
      srcAt == {i \in 1..Len(parts) : parts[i] = Chars_src}
  IN  IF srcAt # {} /\ (CHOOSE i \in srcAt : \A j \in srcAt : i <= j) < Len(parts)
      THEN parts[(CHOOSE i \in srcAt : \A j \in srcAt : i <= j) + 1]
      ELSE IF Len(parts) > 1 THEN parts[1] ELSE Chars_root

\* the own entries of filesByCategory whose key is the category
OwnEntries(entries, category) ==
  {k \in 1..Len(entries) : entries[k].category = category}

\* file.path.split('/').pop() || file.path
NodeLabel(path) ==
  LET parts == Split(path, "/")
  IN  IF parts[Len(parts)] # <<>> THEN parts[Len(parts)] ELSE path

\* the node pushed for the file at the 0-based index
NodeOf(file, index) ==
  [id |-> <<"n", "o", "d", "e", "-">> \o NatToChars(index), label |-> NodeLabel(file.path),
   path |-> file.path, action |-> file.action]

\* the state of the locals of analyzeCodeStructure before any file
NoFilesYet ==
  [thrown |-> FALSE, newFiles |-> 0, modifiedFiles |-> 0, deletedFiles |-> 0,
   filesByCategory |-> <<>>, nodes |-> <<>>]

\* one call of the callback of files.forEach (lines 91-111), for the file at
\* the 1-based position i: filesByCategory[category].push throws a TypeError
\* when the category is no own property but an inherited one
ForEachFile(acc, file, i) ==
  LET counted ==
        [acc EXCEPT !.newFiles = IF file.action = "create" THEN @ + 1 ELSE @,
                    !.modifiedFiles = IF file.action = "modify" THEN @ + 1 ELSE @,
                    !.deletedFiles = IF file.action = "delete" THEN @ + 1 ELSE @]
      category == getCategoryFromPath(file.path)
      own == OwnEntries(acc.filesByCategory, category)
  IN  IF own = {} /\ category \in ObjectPrototypeNames
      THEN [counted EXCEPT !.thrown = TRUE]
      ELSE LET k == IF own = {}
                    THEN OwnKeyPlace([j \in 1..Len(acc.filesByCategory) |->
                                        acc.filesByCategory[j].category], category)
                    ELSE CHOOSE j \in own : TRUE
               entries == IF own = {}
                          THEN InsertAt(acc.filesByCategory, k,
                                        [category |-> category, paths |-> <<>>])
                          ELSE acc.filesByCategory
           IN  [counted EXCEPT
                  !.filesByCategory = [entries EXCEPT ![k].paths = Append(@, file.path)],
                  !.nodes = Append(@, NodeOf(file, i - 1))]

\* files.forEach(...) from the file at position i on; a throw ends it
RECURSIVE ForEach(_, _, _)
ForEach(acc, fs, i) ==
  IF acc.thrown \/ i > Len(fs) THEN acc
  ELSE Call(ForEachFile(acc, fs[i], i), LAMBDA next : ForEach(next, fs, i + 1))

\* analyzeCodeStructure(files): ok = FALSE is the TypeError thrown
analyzeCodeStructure(fs) ==
  Call(ForEach(NoFilesYet, fs, 1), LAMBDA acc :
    IF acc.thrown THEN [called |-> TRUE, ok |-> FALSE, v |-> TypeErrorMessage]
    ELSE [called |-> TRUE, ok |-> TRUE,
          v |-> [totalFiles |-> Len(fs), newFiles |-> acc.newFiles,
                 modifiedFiles |-> acc.modifiedFiles, deletedFiles |-> acc.deletedFiles,
                 filesByCategory |-> acc.filesByCategory,
                 dependencyGraph |-> [nodes |-> acc.nodes, edges |-> <<>>]]])

\* the paths and actions of the files of a call
Path_src_ui_panel == <<"s", "r", "c", "/", "u", "i", "/", "p">>
Path_src_file == <<"s", "r", "c", "/", "m">>
Path_lib_util == <<"l", "i", "b", "/", "u">>
Path_readme == <<"R">>
Path_dir_only == <<"u", "i", "/">>
Path_constructor_index == Chars_constructor \o <<"/", "i">>
Path_numbered_dir == <<"1", "/", "x">>
Paths ==
  {Path_src_ui_panel, Path_src_file, Path_lib_util, Path_readme, Path_dir_only,
   Path_constructor_index, Path_numbered_dir}
ListedActions == {"create", "modify", "delete"}
FileActions == ListedActions \cup {"rename"}
GeneratedFiles == [path : Paths, action : FileActions]
FileLists == UNION {[1..n -> GeneratedFiles] : n \in 0..MaxFiles}

\* analyzeCodeStructure(files)
CallAnalyzeCodeStructure ==
  /\ ~summary.called
  /\ summary' = analyzeCodeStructure(files)
  /\ UNCHANGED <<files, workflowVars, rawOutput, extracted, panelVars>>

AnalysisInit ==
  /\ Constructed
  /\ rawOutput = NoRawOutput
  /\ extracted = NotExtracted
  /\ PanelConstructed
  /\ files \in FileLists
  /\ summary = NotAnalyzed

AnalysisNext == CallAnalyzeCodeStructure

AnalysisSpec == AnalysisInit /\ [][AnalysisNext]_vars

\* the number of paths in the lists of filesByCategory
RECURSIVE ListedPaths(_)
ListedPaths(entries) ==
  IF entries = <<>> THEN 0 ELSE Len(Head(entries).paths) + ListedPaths(Tail(entries))

\* C40: analyzeCodeStructure(files) returns a summary in which totalFiles is
\* the number of files, the graph has one node per file in the order of the
\* files, the sizes of the lists of filesByCategory add up to totalFiles,
\* and newFiles + modifiedFiles + deletedFiles is totalFiles when every
\* action is create, modify or delete.
C40_SummaryCountsEveryFile ==
  summary.called =>
    /\ summary.ok
    /\ summary.v.totalFiles = Len(files)
    /\ Len(summary.v.dependencyGraph.nodes) = Len(files)
    /\ \A i \in 1..Len(files) :
         /\ summary.v.dependencyGraph.nodes[i].path = files[i].path
         /\ summary.v.dependencyGraph.nodes[i].action = files[i].action
         /\ summary.v.dependencyGraph.nodes[i].id =
              <<"n", "o", "d", "e", "-">> \o NatToChars(i - 1)
    /\ ListedPaths(summary.v.filesByCategory) = summary.v.totalFiles
    /\ (\A i \in 1..Len(files) : files[i].action \in ListedActions) =>
         (summary.v.newFiles + summary.v.modifiedFiles + summary.v.deletedFiles
            = summary.v.totalFiles)
====
